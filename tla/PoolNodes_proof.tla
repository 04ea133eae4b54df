---------------------------- MODULE PoolNodes_proof ----------------------------
(***************************************************************************)
(* The memory of the pools.  First what alloc and free do to the           *)
(* allocator's buckets, for nodes of every size, every number of buckets   *)
(* and every limit on what is kept: the buckets stay sorted, last and      *)
(* current stay exact, and a node is handed out only if it is large enough *)
(* and nobody has it.  Then the pools: where each node is, how much of it  *)
(* is taken, and in what order a pool's nodes are tried.                   *)
(***************************************************************************)
EXTENDS Pool, SequenceTheorems, FiniteSetTheorems, WellFoundedInduction, TLAPS

-------------------------------------------------------------------------------
\* Numbers.

\* A set of natural numbers has a least one.
LEMMA LeastNatural ==
    ASSUME NEW S, S \subseteq Nat, S # {}
    PROVE  Min(S) \in S /\ \A y \in S : Min(S) <= y
<1>1. PICK x \in S : \A y \in S : ~(<<y, x>> \in OpToRel(<, Nat))
  BY NatLessThanWellFounded, WFMin
<1>2. \A y \in S : x <= y
  <2> SUFFICES ASSUME NEW y \in S, ~(x <= y) PROVE FALSE
    OBVIOUS
  <2>1. x \in Nat /\ y \in Nat /\ y < x
    OBVIOUS
  <2>2. <<y, x>> \in OpToRel(<, Nat)
    BY <2>1 DEF OpToRel
  <2> QED BY <1>1, <2>2
<1> QED BY <1>2 DEF Min

\* What fails for some natural number fails for a least one.
LEMMA LeastFailure ==
    ASSUME NEW S, S \subseteq Nat, \A n \in Nat : (\A k \in 0..n - 1 : k \in S) => n \in S
    PROVE  \A n \in Nat : n \in S
<1> DEFINE B == Nat \ S
<1> SUFFICES ASSUME B # {} PROVE FALSE
  OBVIOUS
<1>1. Min(B) \in B /\ \A y \in B : Min(B) <= y
  BY LeastNatural
<1>2. \A k \in 0..Min(B) - 1 : k \in S
  BY <1>1
<1> QED BY <1>1, <1>2

\* A set of numbers up to n has a greatest one.
LEMMA GreatestNumber ==
    ASSUME NEW n \in Nat, NEW S, S \subseteq 0..n, S # {}
    PROVE  Max(S) \in S /\ \A y \in S : Max(S) >= y
<1> DEFINE T == {n - y : y \in S}
<1>1. T \subseteq Nat /\ T # {}
  <2>1. \A y \in S : n - y \in Nat
    OBVIOUS
  <2> QED BY <2>1
<1>2. Min(T) \in T /\ \A y \in T : Min(T) <= y
  BY <1>1, LeastNatural
<1>3. PICK x \in S : Min(T) = n - x
  BY <1>2
<1>4. \A y \in S : x >= y
  <2> SUFFICES ASSUME NEW y \in S PROVE x >= y
    OBVIOUS
  <2>1. n - x <= n - y
    BY <1>2, <1>3
  <2> QED BY <2>1
<1> QED BY <1>4 DEF Max

\* Of two numbers.
LEMMA LargerOfTwo ==
    ASSUME NEW a \in Int, NEW b \in Int
    PROVE  Max({a, b}) = (IF a >= b THEN a ELSE b) /\ Min({a, b}) = (IF a <= b THEN a ELSE b)
BY DEF Max, Min

\* Whole pages of b units hold x units.
LEMMA PagesHold ==
    ASSUME NEW b \in Nat \ {0}, NEW x \in Nat
    PROVE  /\ (x + b - 1) \div b \in Nat
           /\ ((x + b - 1) \div b) * b >= x
<1> DEFINE q == (x + b - 1) \div b
           r == (x + b - 1) % b
<1>1. x + b - 1 = b * q + r /\ r \in 0..b - 1 /\ q \in Nat
  OBVIOUS
<1> HIDE DEF q, r
<1>2. b * q = q * b
  BY <1>1
<1> QED BY <1>1, <1>2 DEF q

\* More pages hold more.
LEMMA PagesGrow ==
    ASSUME NEW b \in Nat, NEW m \in Nat, NEW n \in Nat, m <= n
    PROVE  m * b <= n * b
OBVIOUS

-------------------------------------------------------------------------------
\* Lists.

\* An element in front of a list.
LEMMA ConsProperties ==
    ASSUME NEW S, NEW s \in Seq(S), NEW e \in S
    PROVE  /\ <<e>> \o s \in Seq(S)
           /\ Len(<<e>> \o s) = Len(s) + 1
           /\ \A i \in 1..Len(s) + 1 : (<<e>> \o s)[i] = IF i = 1 THEN e ELSE s[i - 1]
<1>1. <<e>> \in Seq(S) /\ Len(<<e>>) = 1 /\ <<e>>[1] = e
  OBVIOUS
<1>2. Len(s) \in Nat
  BY LenProperties
<1> QED BY <1>1, <1>2, ConcatProperties

\* The first element of a list, and the others.
LEMMA TailProperties ==
    ASSUME NEW S, NEW s \in Seq(S), s # <<>>
    PROVE  /\ Len(s) \in Nat \ {0} /\ Head(s) = s[1] /\ Head(s) \in S
           /\ Tail(s) \in Seq(S) /\ Len(Tail(s)) = Len(s) - 1
           /\ \A i \in 1..Len(s) - 1 : Tail(s)[i] = s[i + 1]
BY EmptySeq, HeadTailProperties

\* A list without its k-th element.
LEMMA RemoveAtProperties ==
    ASSUME NEW S, NEW s \in Seq(S), NEW k \in 1..Len(s)
    PROVE  /\ RemoveAt(s, k) \in Seq(S)
           /\ Len(RemoveAt(s, k)) = Len(s) - 1
           /\ \A i \in 1..Len(s) - 1 : RemoveAt(s, k)[i] = IF i < k THEN s[i] ELSE s[i + 1]
<1> DEFINE a == SubSeq(s, 1, k - 1)
           b == SubSeq(s, k + 1, Len(s))
<1>1. Len(s) \in Nat /\ \A i \in 1..Len(s) : s[i] \in S
  BY LenProperties, ElementOfSeq
<1>2. /\ a \in Seq(S) /\ Len(a) = k - 1
      /\ \A i \in 1..k - 1 : a[i] = s[i]
  <2>1. \A i \in 1..k - 1 : s[i] \in S
    BY <1>1
  <2> QED BY <1>1, <2>1, SubSeqProperties
<1>3. /\ b \in Seq(S) /\ Len(b) = Len(s) - k
      /\ \A i \in 1..Len(s) - k : b[i] = s[k + i]
  <2>1. k + 1 \in Int /\ Len(s) \in Int /\ \A i \in k + 1..Len(s) : s[i] \in S
    BY <1>1
  <2>2. /\ b \in Seq(S) /\ Len(b) = IF k + 1 <= Len(s) THEN Len(s) - (k + 1) + 1 ELSE 0
        /\ \A i \in 1..Len(s) - (k + 1) + 1 : b[i] = s[k + 1 + i - 1]
    BY <2>1, SubSeqProperties
  <2> QED BY <1>1, <2>2
<1> HIDE DEF a, b
<1>4. /\ a \o b \in Seq(S) /\ Len(a \o b) = Len(a) + Len(b)
      /\ \A i \in 1..Len(a) + Len(b) : (a \o b)[i] = IF i <= Len(a) THEN a[i] ELSE b[i - Len(a)]
  BY <1>2, <1>3, ConcatProperties
<1>5. RemoveAt(s, k) = a \o b
  BY DEF RemoveAt, a, b
<1>6. Len(a) + Len(b) = Len(s) - 1
  BY <1>1, <1>2, <1>3
<1>7. ASSUME NEW i \in 1..Len(s) - 1
      PROVE  (a \o b)[i] = IF i < k THEN s[i] ELSE s[i + 1]
  <2>1. CASE i < k
    BY <1>1, <1>2, <1>4, <1>6, <2>1
  <2>2. CASE ~(i < k)
    <3>1. i - (k - 1) \in 1..Len(s) - k /\ k + (i - (k - 1)) = i + 1
      BY <1>1, <2>2
    <3>2. (a \o b)[i] = b[i - (k - 1)]
      BY <1>1, <1>2, <1>4, <1>6, <2>2
    <3> QED BY <1>3, <2>2, <3>1, <3>2
  <2> QED BY <2>1, <2>2
<1> QED BY <1>4, <1>5, <1>6, <1>7

\* A list with e put at its place k.
LEMMA InsertAtProperties ==
    ASSUME NEW S, NEW s \in Seq(S), NEW e \in S, NEW k \in 1..Len(s) + 1
    PROVE  /\ InsertAt(s, k, e) \in Seq(S)
           /\ Len(InsertAt(s, k, e)) = Len(s) + 1
           /\ \A i \in 1..Len(s) + 1 : InsertAt(s, k, e)[i] =
                IF i < k THEN s[i] ELSE IF i = k THEN e ELSE s[i - 1]
<1> DEFINE a == SubSeq(s, 1, k - 1)
           b == SubSeq(s, k, Len(s))
           c == a \o <<e>>
<1>1. Len(s) \in Nat /\ \A i \in 1..Len(s) : s[i] \in S
  BY LenProperties, ElementOfSeq
<1>2. /\ a \in Seq(S) /\ Len(a) = k - 1
      /\ \A i \in 1..k - 1 : a[i] = s[i]
  <2>1. \A i \in 1..k - 1 : s[i] \in S
    BY <1>1
  <2> QED BY <1>1, <2>1, SubSeqProperties
<1>3. /\ b \in Seq(S) /\ Len(b) = Len(s) - k + 1
      /\ \A i \in 1..Len(s) - k + 1 : b[i] = s[k + i - 1]
  <2>1. k \in Int /\ Len(s) \in Int /\ \A i \in k..Len(s) : s[i] \in S
    BY <1>1
  <2>2. /\ b \in Seq(S) /\ Len(b) = IF k <= Len(s) THEN Len(s) - k + 1 ELSE 0
        /\ \A i \in 1..Len(s) - k + 1 : b[i] = s[k + i - 1]
    BY <2>1, SubSeqProperties
  <2> QED BY <1>1, <2>2
<1> HIDE DEF a, b
<1>4. <<e>> \in Seq(S) /\ Len(<<e>>) = 1 /\ <<e>>[1] = e
  OBVIOUS
<1>5. /\ c \in Seq(S) /\ Len(c) = k
      /\ \A i \in 1..k : c[i] = IF i < k THEN s[i] ELSE e
  BY <1>2, <1>4, ConcatProperties
<1> HIDE DEF c
<1>6. /\ c \o b \in Seq(S) /\ Len(c \o b) = Len(c) + Len(b)
      /\ \A i \in 1..Len(c) + Len(b) : (c \o b)[i] = IF i <= Len(c) THEN c[i] ELSE b[i - Len(c)]
  BY <1>3, <1>5, ConcatProperties
<1>7. InsertAt(s, k, e) = c \o b
  BY DEF InsertAt, a, b, c
<1> QED BY <1>1, <1>3, <1>5, <1>6, <1>7

\* What is in a list.
LEMMA InList ==
    ASSUME NEW S, NEW s \in Seq(S)
    PROVE  /\ ToSet(s) = {s[i] : i \in 1..Len(s)} /\ ToSet(s) \subseteq S
           /\ \A x : x \in ToSet(s) <=> \E i \in 1..Len(s) : s[i] = x
BY LenProperties, ElementOfSeq DEF ToSet

-------------------------------------------------------------------------------
\* Pages.

\* The pages of the nodes in S, of which n has f[n] + 1.
Sheets(f, S) == UNION {{n} \X (1..f[n] + 1) : n \in S}

\* What is counted are pairs of a node and a number.
LEMMA SheetIs ==
    ASSUME NEW f, NEW S
    PROVE  \A x : x \in Sheets(f, S) <=> \E n \in S : x \in {n} \X (1..f[n] + 1)
BY DEF Sheets

\* Only the nodes' own numbers of pages count.
LEMMA SheetsAgree ==
    ASSUME NEW f, NEW g, NEW S, \A n \in S : f[n] = g[n]
    PROVE  Sheets(f, S) = Sheets(g, S)
<1>1. \A n \in S : {n} \X (1..f[n] + 1) = {n} \X (1..g[n] + 1)
  OBVIOUS
<1>2. ASSUME NEW x PROVE x \in Sheets(f, S) <=> x \in Sheets(g, S)
  <2>1. x \in Sheets(f, S) <=> \E n \in S : x \in {n} \X (1..f[n] + 1)
    BY SheetIs
  <2>2. x \in Sheets(g, S) <=> \E n \in S : x \in {n} \X (1..g[n] + 1)
    BY SheetIs
  <2>3. \A n \in S : x \in {n} \X (1..f[n] + 1) <=> x \in {n} \X (1..g[n] + 1)
    BY <1>1
  <2> QED BY <2>1, <2>2, <2>3
<1> QED BY <1>2

\* The numbers up to n.
LEMMA UpTo ==
    ASSUME NEW n \in Nat
    PROVE  IsFiniteSet(1..n) /\ Cardinality(1..n) = n
<1>1. 1 \in Int /\ n \in Int
  OBVIOUS
<1>2. IsFiniteSet(1..n) /\ Cardinality(1..n) = IF 1 > n THEN 0 ELSE n - 1 + 1
  BY <1>1, FS_Interval, Zenon
<1> QED BY <1>2

\* One node.
LEMMA SheetsOfOne ==
    ASSUME NEW T, NEW f \in [T -> Nat], NEW n \in T
    PROVE  IsFiniteSet(Sheets(f, {n})) /\ Cardinality(Sheets(f, {n})) = f[n] + 1
<1>1. Sheets(f, {n}) = {n} \X (1..f[n] + 1)
  BY DEF Sheets
<1>2. IsFiniteSet({n}) /\ Cardinality({n}) = 1
  BY FS_Singleton
<1> DEFINE m == f[n] + 1
<1>3. m \in Nat
  OBVIOUS
<1> HIDE DEF m
<1>4. IsFiniteSet(1..m) /\ Cardinality(1..m) = m
  BY <1>3, UpTo
<1>5. /\ IsFiniteSet({n} \X (1..m))
      /\ Cardinality({n} \X (1..m)) = Cardinality({n}) * Cardinality(1..m)
  BY <1>2, <1>4, FS_Product
<1>6. Cardinality({n}) * Cardinality(1..m) = m
  BY <1>2, <1>3, <1>4
<1>7. Sheets(f, {n}) = {n} \X (1..m)
  BY <1>1 DEF m
<1> QED BY <1>5, <1>6, <1>7 DEF m

\* Two sets of nodes.
LEMMA SheetsOfBoth ==
    ASSUME NEW f, NEW S, NEW T, S \cap T = {},
           IsFiniteSet(Sheets(f, S)), IsFiniteSet(Sheets(f, T))
    PROVE  /\ IsFiniteSet(Sheets(f, S \cup T))
           /\ Cardinality(Sheets(f, S \cup T)) = Cardinality(Sheets(f, S)) + Cardinality(Sheets(f, T))
<1> DEFINE A == Sheets(f, S)
           B == Sheets(f, T)
<1>1. Sheets(f, S \cup T) = A \cup B
  BY SheetIs
<1>2. A \cap B = {}
  BY SheetIs
<1>3. IsFiniteSet(A) /\ IsFiniteSet(B)
  OBVIOUS
<1> HIDE DEF A, B
<1>4. /\ IsFiniteSet(A \cup B)
      /\ Cardinality(A \cup B) = Cardinality(A) + Cardinality(B) - Cardinality(A \cap B)
  BY <1>3, FS_Union
<1>5. Cardinality(A) \in Nat /\ Cardinality(B) \in Nat /\ Cardinality(A \cap B) = 0
  BY <1>2, <1>3, FS_CardinalityType, FS_EmptySet
<1>6. Cardinality(A \cup B) = Cardinality(A) + Cardinality(B)
  BY <1>4, <1>5
<1> QED BY <1>1, <1>4, <1>6 DEF A, B

\* Finitely many nodes have finitely many pages.
LEMMA SheetsFinite ==
    ASSUME NEW T, NEW f \in [T -> Nat], NEW S, S \subseteq T, IsFiniteSet(S)
    PROVE  IsFiniteSet(Sheets(f, S)) /\ Cardinality(Sheets(f, S)) \in Nat
<1> DEFINE P(n) == {n} \X (1..f[n] + 1)
           U == {P(n) : n \in S}
<1>1. \A n \in S : IsFiniteSet(P(n))
  <2> SUFFICES ASSUME NEW n \in S PROVE IsFiniteSet(P(n))
    OBVIOUS
  <2>1. Sheets(f, {n}) = P(n)
    BY DEF Sheets
  <2>2. IsFiniteSet(Sheets(f, {n}))
    BY SheetsOfOne
  <2> QED BY <2>1, <2>2
<1>2. IsFiniteSet(U)
  <2> DEFINE g == [n \in S |-> P(n)]
  <2> HIDE DEF P
  <2>1. g \in Surjection(S, U)
    BY DEF Surjection
  <2> HIDE DEF g, U
  <2> QED BY <2>1, FS_Surjection
<1>3. \A X \in U : IsFiniteSet(X)
  BY <1>1
<1>4. IsFiniteSet(UNION U)
  <2> HIDE DEF U
  <2> QED BY <1>2, <1>3, FS_UNION
<1>5. Sheets(f, S) = UNION U
  BY DEF Sheets
<1> QED BY <1>4, <1>5, FS_CardinalityType

\* A node more.
LEMMA SheetsMore ==
    ASSUME NEW T, NEW f \in [T -> Nat], NEW S, S \subseteq T, IsFiniteSet(S), NEW n \in T, n \notin S
    PROVE  Cardinality(Sheets(f, S \cup {n})) = Cardinality(Sheets(f, S)) + f[n] + 1
<1>1. IsFiniteSet(Sheets(f, {n})) /\ Cardinality(Sheets(f, {n})) = f[n] + 1 /\ f[n] \in Nat
  BY SheetsOfOne
<1>2. IsFiniteSet(Sheets(f, S)) /\ Cardinality(Sheets(f, S)) \in Nat
  BY SheetsFinite
<1>3. Cardinality(Sheets(f, S \cup {n})) = Cardinality(Sheets(f, S)) + Cardinality(Sheets(f, {n}))
  BY <1>1, <1>2, SheetsOfBoth
<1> QED BY <1>1, <1>2, <1>3

\* A node less.
LEMMA SheetsLess ==
    ASSUME NEW T, NEW f \in [T -> Nat], NEW S, S \subseteq T, IsFiniteSet(S), NEW n \in S
    PROVE  Cardinality(Sheets(f, S)) = Cardinality(Sheets(f, S \ {n})) + f[n] + 1
<1> DEFINE R == S \ {n}
<1>1. IsFiniteSet(R) /\ R \subseteq T /\ n \notin R /\ n \in T
  BY FS_RemoveElement
<1>2. R \cup {n} = S
  OBVIOUS
<1> HIDE DEF R
<1>3. Cardinality(Sheets(f, R \cup {n})) = Cardinality(Sheets(f, R)) + f[n] + 1
  BY <1>1, SheetsMore
<1> QED BY <1>2, <1>3 DEF R

\* Every node has a number, and pages one more: how many the nodes in S have.
Numbered(ix) == ix \in [Nodes -> Nat]
PagesIn(ix, S) == Cardinality(Sheets(ix, S))
Minus(S, n) == S \ {n}
Plus(S, n) == S \cup {n}

LEMMA PagesAre ==
    ASSUME NEW ix, Numbered(ix), NEW S, S \subseteq Nodes
    PROVE  PagesIn(ix, S) \in Nat
<1>1. IsFiniteSet(S)
  BY FS_Subset, AllocatorAssumption
<1> QED BY <1>1, SheetsFinite DEF Numbered, PagesIn

LEMMA PagesLess ==
    ASSUME NEW ix, Numbered(ix), NEW S, S \subseteq Nodes, NEW n \in S
    PROVE  /\ PagesIn(ix, S) = PagesIn(ix, Minus(S, n)) + ix[n] + 1
           /\ ix[n] \in Nat /\ PagesIn(ix, S) \in Nat /\ PagesIn(ix, Minus(S, n)) \in Nat
<1>1. IsFiniteSet(S)
  BY FS_Subset, AllocatorAssumption
<1>2. PagesIn(ix, S) = PagesIn(ix, Minus(S, n)) + ix[n] + 1
  BY <1>1, SheetsLess DEF Numbered, PagesIn, Minus
<1>3. Minus(S, n) \subseteq Nodes
  BY DEF Minus
<1>4. ix[n] \in Nat
  BY DEF Numbered
<1> QED BY <1>2, <1>3, <1>4, PagesAre

LEMMA PagesMore ==
    ASSUME NEW ix, Numbered(ix), NEW S, S \subseteq Nodes, NEW n \in Nodes, n \notin S
    PROVE  /\ PagesIn(ix, Plus(S, n)) = PagesIn(ix, S) + ix[n] + 1
           /\ ix[n] \in Nat /\ PagesIn(ix, S) \in Nat /\ PagesIn(ix, Plus(S, n)) \in Nat
<1>1. IsFiniteSet(S)
  BY FS_Subset, AllocatorAssumption
<1>2. PagesIn(ix, Plus(S, n)) = PagesIn(ix, S) + ix[n] + 1
  BY <1>1, SheetsMore DEF Numbered, PagesIn, Plus
<1>3. Plus(S, n) \subseteq Nodes
  BY DEF Plus
<1>4. ix[n] \in Nat
  BY DEF Numbered
<1> QED BY <1>2, <1>3, <1>4, PagesAre

\* Only the numbers of the nodes in S count.
LEMMA PagesAgree ==
    ASSUME NEW f, NEW g, NEW S, \A n \in S : f[n] = g[n]
    PROVE  PagesIn(f, S) = PagesIn(g, S)
BY SheetsAgree DEF PagesIn

-------------------------------------------------------------------------------
\* Buckets.

\* Where a node of pages ix + 1 waits.
BucketOf(ix) == IF ix < MaxIndex THEN ix ELSE 0

\* The nodes in the buckets b.
InBuckets(b) == UNION {ToSet(b[i]) : i \in DOMAIN b}

\* b is a family of lists of nodes of S.
BucketsOf(b, S) == b \in [0..MaxIndex - 1 -> Seq(S)]

\* The buckets hold nodes of S, each in the place for its size and once.
BucketsSound(b, S, ix) ==
    /\ BucketsOf(b, S)
    /\ \A i \in 0..MaxIndex - 1 : \A k \in 1..Len(b[i]) : i = BucketOf(ix[b[i][k]])
    /\ \A i \in 0..MaxIndex - 1 : \A k, l \in 1..Len(b[i]) : b[i][k] = b[i][l] => k = l

\* l is the highest bucket in use.
LastIs(b, l) ==
    /\ l \in 0..MaxIndex - 1 /\ (l = 0 \/ b[l] # <<>>)
    /\ \A i \in l + 1..MaxIndex - 1 : b[i] = <<>>

\* c more pages may be kept, of m in all; 0 is no limit.
RoomIs(b, c, ix, m) == m # 0 => PagesIn(ix, InBuckets(b)) + c = m

\* What is in a bucket.
LEMMA InBucketsIs ==
    ASSUME NEW S, NEW b, BucketsOf(b, S)
    PROVE  /\ InBuckets(b) \subseteq S
           /\ \A n : n \in InBuckets(b) <=>
                \E i \in 0..MaxIndex - 1 : \E k \in 1..Len(b[i]) : b[i][k] = n
<1>1. \A i \in 0..MaxIndex - 1 : b[i] \in Seq(S)
  BY DEF BucketsOf
<1>2. \A i \in 0..MaxIndex - 1 : ToSet(b[i]) \subseteq S
        /\ \A x : x \in ToSet(b[i]) <=> \E k \in 1..Len(b[i]) : b[i][k] = x
  BY <1>1, InList
<1>3. DOMAIN b = 0..MaxIndex - 1
  BY DEF BucketsOf
<1>4. \A n : n \in InBuckets(b) <=> \E i \in 0..MaxIndex - 1 : n \in ToSet(b[i])
  BY <1>3 DEF InBuckets
<1> QED BY <1>2, <1>4

\* The buckets once the list in place i is r.
Changed(b, i, r) == [b EXCEPT ![i] = r]

\* r is the list s of elements of S, without its only element n.
Loses(s, n, r, S) ==
    /\ r \in Seq(S)
    /\ \A k, l \in 1..Len(r) : r[k] = r[l] => k = l
    /\ \A k \in 1..Len(r) : r[k] # n /\ \E l \in 1..Len(s) : s[l] = r[k]
    /\ \A l \in 1..Len(s) : s[l] = n \/ \E k \in 1..Len(r) : r[k] = s[l]
    /\ \E k \in 1..Len(s) : s[k] = n

\* Bucket i gives up the node n.
LEMMA BucketLess ==
    ASSUME NEW S, NEW ix, NEW b, BucketsSound(b, S, ix), NEW i \in 0..MaxIndex - 1,
           NEW n, NEW r, Loses(b[i], n, r, S)
    PROVE  /\ BucketsSound(Changed(b, i, r), S, ix)
           /\ n \in InBuckets(b)
           /\ InBuckets(Changed(b, i, r)) = Minus(InBuckets(b), n)
<1> DEFINE d == Changed(b, i, r)
<1>0. /\ \A k, l \in 1..Len(r) : r[k] = r[l] => k = l
      /\ \A k \in 1..Len(r) : r[k] # n /\ \E l \in 1..Len(b[i]) : b[i][l] = r[k]
      /\ \A l \in 1..Len(b[i]) : b[i][l] = n \/ \E k \in 1..Len(r) : r[k] = b[i][l]
      /\ \E k \in 1..Len(b[i]) : b[i][k] = n
      /\ r \in Seq(S)
  BY DEF Loses
<1>1. BucketsOf(b, S)
  BY DEF BucketsSound
<1>2. /\ BucketsOf(d, S)
      /\ d[i] = r /\ \A j \in 0..MaxIndex - 1 : j # i => d[j] = b[j]
  BY <1>0, <1>1 DEF BucketsOf, Changed
<1> HIDE DEF d
<1>3. ASSUME NEW j \in 0..MaxIndex - 1, NEW k \in 1..Len(d[j])
      PROVE  j = BucketOf(ix[d[j][k]])
  <2>1. CASE j # i
    BY <1>2, <2>1 DEF BucketsSound
  <2>2. CASE j = i
    <3>1. PICK l \in 1..Len(b[i]) : b[i][l] = r[k]
      BY <1>0, <1>2, <2>2
    <3> QED BY <1>2, <2>2, <3>1 DEF BucketsSound
  <2> QED BY <2>1, <2>2
<1>4. ASSUME NEW j \in 0..MaxIndex - 1, NEW k \in 1..Len(d[j]), NEW l \in 1..Len(d[j]), d[j][k] = d[j][l]
      PROVE  k = l
  <2>1. CASE j # i
    BY <1>2, <1>4, <2>1 DEF BucketsSound
  <2>2. CASE j = i
    BY <1>0, <1>2, <1>4, <2>2
  <2> QED BY <2>1, <2>2
<1>5. BucketsSound(d, S, ix)
  BY <1>2, <1>3, <1>4 DEF BucketsSound
<1>6. \A x : x \in InBuckets(d) <=> \E j \in 0..MaxIndex - 1 : \E k \in 1..Len(d[j]) : d[j][k] = x
  BY <1>2, InBucketsIs
<1>7. \A x : x \in InBuckets(b) <=> \E j \in 0..MaxIndex - 1 : \E k \in 1..Len(b[j]) : b[j][k] = x
  BY <1>1, InBucketsIs
<1>8. PICK m \in 1..Len(b[i]) : b[i][m] = n
  BY <1>0
<1>9. ASSUME NEW j \in 0..MaxIndex - 1, NEW k \in 1..Len(d[j])
      PROVE  d[j][k] \in InBuckets(b) /\ d[j][k] # n
  <2>1. CASE j # i
    <3>1. d[j] = b[j] /\ k \in 1..Len(b[j])
      BY <1>2, <2>1
    <3>2. b[j][k] # n
      <4>1. i = BucketOf(ix[n])
        BY <1>8 DEF BucketsSound
      <4>2. j = BucketOf(ix[b[j][k]])
        BY <3>1 DEF BucketsSound
      <4> QED BY <2>1, <4>1, <4>2
    <3> QED BY <1>7, <3>1, <3>2
  <2>2. CASE j = i
    <3>1. d[j] = r /\ k \in 1..Len(r)
      BY <1>2, <2>2
    <3>2. PICK l \in 1..Len(b[i]) : b[i][l] = r[k]
      BY <1>0, <3>1
    <3> QED BY <1>0, <1>7, <3>1, <3>2
  <2> QED BY <2>1, <2>2
<1>10. ASSUME NEW j \in 0..MaxIndex - 1, NEW k \in 1..Len(b[j]), b[j][k] # n
       PROVE  b[j][k] \in InBuckets(d)
  <2>1. CASE j # i
    <3>1. d[j] = b[j]
      BY <1>2, <2>1
    <3>2. k \in 1..Len(d[j]) /\ d[j][k] = b[j][k]
      BY <3>1
    <3> QED BY <1>6, <3>2
  <2>2. CASE j = i
    <3>1. PICK l \in 1..Len(r) : r[l] = b[j][k]
      BY <1>0, <1>10, <2>2
    <3> QED BY <1>2, <1>6, <2>2, <3>1
  <2> QED BY <2>1, <2>2
<1>11. InBuckets(d) = InBuckets(b) \ {n}
  <2>1. \A x \in InBuckets(d) : x \in InBuckets(b) /\ x # n
    BY <1>6, <1>9
  <2>2. \A x \in InBuckets(b) : x # n => x \in InBuckets(d)
    <3> SUFFICES ASSUME NEW x \in InBuckets(b), x # n PROVE x \in InBuckets(d)
      OBVIOUS
    <3>1. PICK j \in 0..MaxIndex - 1 : \E k \in 1..Len(b[j]) : b[j][k] = x
      BY <1>7
    <3> QED BY <1>10, <3>1
  <2> QED BY <2>1, <2>2
<1>12. n \in InBuckets(b)
  BY <1>7, <1>8
<1> QED BY <1>5, <1>11, <1>12 DEF d, Minus

\* A node that is in no bucket joins the one for its size.
LEMMA BucketMore ==
    ASSUME NEW S, NEW ix, NEW b, BucketsSound(b, S, ix), NEW n \in S, n \notin InBuckets(b),
           NEW i \in 0..MaxIndex - 1, i = BucketOf(ix[n])
    PROVE  /\ BucketsSound(Changed(b, i, <<n>> \o b[i]), S, ix)
           /\ InBuckets(Changed(b, i, <<n>> \o b[i])) = Plus(InBuckets(b), n)
<1> DEFINE r == <<n>> \o b[i]
           d == Changed(b, i, r)
<1>1. BucketsOf(b, S) /\ b[i] \in Seq(S)
  BY DEF BucketsSound, BucketsOf
<1>2. /\ r \in Seq(S) /\ Len(r) = Len(b[i]) + 1
      /\ \A k \in 1..Len(b[i]) + 1 : r[k] = IF k = 1 THEN n ELSE b[i][k - 1]
  BY <1>1, ConsProperties
<1>3. Len(b[i]) \in Nat
  BY <1>1, LenProperties
<1> HIDE DEF r
<1>4. /\ BucketsOf(d, S)
      /\ d[i] = r /\ \A j \in 0..MaxIndex - 1 : j # i => d[j] = b[j]
  BY <1>1, <1>2 DEF BucketsOf, Changed
<1>5. \A x : x \in InBuckets(b) <=> \E j \in 0..MaxIndex - 1 : \E k \in 1..Len(b[j]) : b[j][k] = x
  BY <1>1, InBucketsIs
<1>6. ASSUME NEW k \in 1..Len(r)
      PROVE  IF k = 1 THEN r[k] = n ELSE k - 1 \in 1..Len(b[i]) /\ r[k] = b[i][k - 1]
  <2>1. k \in 1..Len(b[i]) + 1
    BY <1>2
  <2>2. k # 1 => k - 1 \in 1..Len(b[i])
    BY <1>3, <2>1
  <2> QED BY <1>2, <2>1, <2>2
<1>7. ASSUME NEW k \in 1..Len(b[i]) PROVE k + 1 \in 1..Len(r) /\ r[k + 1] = b[i][k]
  <2>1. k + 1 \in 1..Len(b[i]) + 1 /\ k + 1 # 1 /\ k + 1 - 1 = k
    BY <1>3
  <2> QED BY <1>2, <2>1
<1>8. 1 \in 1..Len(r) /\ r[1] = n
  BY <1>2, <1>3
<1> HIDE DEF d
<1>9. \A x : x \in InBuckets(d) <=> \E j \in 0..MaxIndex - 1 : \E k \in 1..Len(d[j]) : d[j][k] = x
  BY <1>4, InBucketsIs
<1>10. ASSUME NEW j \in 0..MaxIndex - 1, NEW k \in 1..Len(d[j])
       PROVE  j = BucketOf(ix[d[j][k]]) /\ (d[j][k] \in InBuckets(b) \/ d[j][k] = n)
  <2>1. CASE j # i
    BY <1>4, <1>5, <2>1 DEF BucketsSound
  <2>2. CASE j = i /\ k = 1
    BY <1>4, <1>8, <2>2
  <2>3. CASE j = i /\ k # 1
    <3>1. k - 1 \in 1..Len(b[i]) /\ d[j][k] = b[i][k - 1]
      BY <1>4, <1>6, <2>3
    <3> QED BY <1>5, <2>3, <3>1 DEF BucketsSound
  <2> QED BY <2>1, <2>2, <2>3
<1>11. ASSUME NEW j \in 0..MaxIndex - 1, NEW k \in 1..Len(d[j]), NEW l \in 1..Len(d[j]), d[j][k] = d[j][l]
       PROVE  k = l
  <2>1. CASE j # i
    BY <1>4, <1>11, <2>1 DEF BucketsSound
  <2>2. CASE j = i
    <3>1. \A m \in 1..Len(b[i]) : b[i][m] # n
      BY <1>5
    <3>2. \A x, y \in 1..Len(b[i]) : b[i][x] = b[i][y] => x = y
      BY DEF BucketsSound
    <3>3. /\ IF k = 1 THEN r[k] = n ELSE k - 1 \in 1..Len(b[i]) /\ r[k] = b[i][k - 1]
          /\ IF l = 1 THEN r[l] = n ELSE l - 1 \in 1..Len(b[i]) /\ r[l] = b[i][l - 1]
          /\ r[k] = r[l] /\ k \in Nat /\ l \in Nat
      BY <1>4, <1>6, <1>11, <2>2
    <3> QED BY <3>1, <3>2, <3>3
  <2> QED BY <2>1, <2>2
<1>12. BucketsSound(d, S, ix)
  BY <1>4, <1>10, <1>11 DEF BucketsSound
<1>13. InBuckets(d) = InBuckets(b) \cup {n}
  <2>1. n \in InBuckets(d)
    BY <1>4, <1>8, <1>9
  <2>2. ASSUME NEW j \in 0..MaxIndex - 1, NEW k \in 1..Len(b[j]) PROVE b[j][k] \in InBuckets(d)
    <3>1. CASE j # i
      BY <1>4, <1>9, <3>1
    <3>2. CASE j = i
      <4>1. k + 1 \in 1..Len(d[i]) /\ d[i][k + 1] = b[j][k]
        BY <1>4, <1>7, <3>2
      <4> QED BY <1>9, <3>2, <4>1
    <3> QED BY <3>1, <3>2
  <2>3. \A x \in InBuckets(b) : x \in InBuckets(d)
    BY <1>5, <2>2
  <2>4. \A x \in InBuckets(d) : x \in InBuckets(b) \/ x = n
    BY <1>9, <1>10
  <2> QED BY <2>1, <2>3, <2>4
<1> QED BY <1>12, <1>13 DEF d, r, Plus

-------------------------------------------------------------------------------
\* The allocator's invariant: what its variables may hold, and that its summaries
\* are exact.

AllocatorTyped ==
    /\ heap \subseteq Nodes /\ Numbered(index)
    /\ \A n \in Nodes : index[n] = 0 <=> n \notin heap
    /\ allocated = PagesIn(index, heap)
    /\ max \in Nat /\ current \in 0..max /\ last \in 0..MaxIndex - 1
    /\ BucketsSound(buf, heap, index)

AllocatorExact == LastIs(buf, last) /\ RoomIs(buf, current, index, max)

LEMMA KeptIs == Kept = InBuckets(buf) /\ Kept' = InBuckets(buf')
BY DEF Kept, InBuckets

LEMMA PagesOfIs == \A S : PagesOf(S) = PagesIn(index, S)
BY DEF PagesOf, Pages, PagesIn, Sheets

\* Two pages at least are asked for, and enough.
LEMMA WantedHolds ==
    ASSUME NEW size \in Nat
    PROVE  /\ Wanted(size) \in Nat \ {0}
           /\ \A i \in Nat : i >= Wanted(size) => Header + size <= (i + 1) * Boundary
<1> DEFINE x == size + Header
           q == (x + Boundary - 1) \div Boundary
<1>1. x \in Nat /\ Boundary \in Nat \ {0} /\ Header \in Nat
  BY AllocatorAssumption
<1>2. q \in Nat /\ q * Boundary >= x
  <2> HIDE DEF x
  <2> QED BY <1>1, PagesHold
<1>3. Wanted(size) = (IF 2 >= q THEN 2 ELSE q) - 1
  <2>1. Wanted(size) = Max({2, q}) - 1
    BY DEF Wanted
  <2> HIDE DEF q
  <2> QED BY <1>2, <2>1, LargerOfTwo
<1> HIDE DEF q
<1>4. ASSUME NEW i \in Nat, i >= Wanted(size) PROVE Header + size <= (i + 1) * Boundary
  <2>1. q <= i + 1 /\ i + 1 \in Nat
    BY <1>2, <1>3, <1>4
  <2>2. q * Boundary <= (i + 1) * Boundary
    BY <1>1, <1>2, <2>1, PagesGrow
  <2> DEFINE y == q * Boundary
             z == (i + 1) * Boundary
  <2>3. y \in Int /\ z \in Int
    BY <1>1, <1>2
  <2> HIDE DEF y, z
  <2>4. y >= x /\ y <= z
    BY <1>2, <2>2 DEF y, z
  <2>5. x <= z
    BY <1>1, <2>3, <2>4
  <2> QED BY <1>1, <2>5 DEF x, z
<1> QED BY <1>2, <1>3, <1>4

\* x + 1 of the a pages kept are taken when c more may be kept of m.
LEMMA RoomGrows ==
    ASSUME NEW a \in Nat, NEW b \in Nat, NEW x \in Nat, b = a - (x + 1),
           NEW m \in Nat, NEW c \in 0..m, m # 0 => a + c = m,
           NEW d, d = IF c + x + 1 <= m THEN c + x + 1 ELSE m
    PROVE  d \in 0..m /\ (m # 0 => b + d = m)
OBVIOUS

\* A node is taken from a bucket.
LEMMA TakenSound ==
    ASSUME AllocatorTyped, AllocatorExact, NEW i \in 0..MaxIndex - 1,
           NEW n, NEW r, Loses(buf[i], n, r, heap), buf' = Changed(buf, i, r),
           CountTaken(n), last' \in 0..MaxIndex - 1,
           UNCHANGED <<heap, index, allocated, max>>
    PROVE  /\ AllocatorTyped' /\ RoomIs(buf', current', index', max')
           /\ n \in Kept /\ n \in heap /\ Kept' = Minus(Kept, n)
<1>1. /\ BucketsSound(buf', heap, index)
      /\ n \in InBuckets(buf)
      /\ InBuckets(buf') = Minus(InBuckets(buf), n)
  BY BucketLess DEF AllocatorTyped
<1>2. InBuckets(buf) \subseteq heap /\ heap \subseteq Nodes /\ Numbered(index)
  <2>1. BucketsOf(buf, heap)
    BY DEF AllocatorTyped, BucketsSound
  <2> QED BY <2>1, InBucketsIs DEF AllocatorTyped
<1> DEFINE a == PagesIn(index, InBuckets(buf))
           b == PagesIn(index, Minus(InBuckets(buf), n))
<1>3. a \in Nat /\ b \in Nat /\ a = b + index[n] + 1 /\ index[n] \in Nat
  <2>1. InBuckets(buf) \subseteq Nodes
    BY <1>2
  <2> QED BY <1>1, <1>2, <2>1, PagesLess
<1> HIDE DEF a, b
<1>4. b = a - (index[n] + 1)
  BY <1>3
<1>5. max \in Nat /\ current \in 0..max /\ (max # 0 => a + current = max)
  BY DEF AllocatorTyped, AllocatorExact, RoomIs, a
<1>6. current' = IF current + index[n] + 1 <= max THEN current + index[n] + 1 ELSE max
  <2> DEFINE c == current + (index[n] + 1)
  <2>1. c = current + index[n] + 1 /\ c \in Int /\ max \in Int
    BY <1>3, <1>5
  <2>2. current' = Min({c, max})
    BY DEF CountTaken, Pages
  <2> HIDE DEF c
  <2>3. Min({c, max}) = IF c <= max THEN c ELSE max
    BY <2>1, LargerOfTwo
  <2> QED BY <2>1, <2>2, <2>3
<1>7. current' \in 0..max /\ (max # 0 => b + current' = max)
  BY <1>3, <1>4, <1>5, <1>6, RoomGrows
<1>8. AllocatorTyped'
  BY <1>1, <1>7 DEF AllocatorTyped
<1>9. RoomIs(buf', current', index', max')
  BY <1>1, <1>7 DEF RoomIs, b
<1> QED BY <1>1, <1>2, <1>8, <1>9, KeptIs

\* A list without its first element, and without its k-th.
LEMMA TailLoses ==
    ASSUME NEW S, NEW s \in Seq(S), s # <<>>, \A k, l \in 1..Len(s) : s[k] = s[l] => k = l
    PROVE  Loses(s, Head(s), Tail(s), S)
<1>1. /\ Len(s) \in Nat \ {0} /\ Head(s) = s[1]
      /\ Tail(s) \in Seq(S) /\ Len(Tail(s)) = Len(s) - 1
      /\ \A i \in 1..Len(s) - 1 : Tail(s)[i] = s[i + 1]
  BY TailProperties
<1> DEFINE r == Tail(s)
<1> HIDE DEF r
<1>2. Len(s) \in Nat \ {0} /\ r \in Seq(S) /\ Len(r) = Len(s) - 1
  BY <1>1 DEF r
<1>3. \A i \in 1..Len(r) : r[i] = s[i + 1] /\ i + 1 \in 1..Len(s) /\ i + 1 # 1
  BY <1>1 DEF r
<1>4. \A k, l \in 1..Len(r) : r[k] = r[l] => k = l
  <2> SUFFICES ASSUME NEW k \in 1..Len(r), NEW l \in 1..Len(r), r[k] = r[l] PROVE k = l
    OBVIOUS
  <2>1. s[k + 1] = s[l + 1] /\ k + 1 \in 1..Len(s) /\ l + 1 \in 1..Len(s)
    BY <1>3
  <2>2. k + 1 = l + 1
    BY <2>1
  <2> QED BY <1>2, <2>2
<1>5. \A k \in 1..Len(r) : r[k] # s[1] /\ \E l \in 1..Len(s) : s[l] = r[k]
  <2> SUFFICES ASSUME NEW k \in 1..Len(r) PROVE r[k] # s[1] /\ \E l \in 1..Len(s) : s[l] = r[k]
    OBVIOUS
  <2>1. r[k] = s[k + 1] /\ k + 1 \in 1..Len(s) /\ k + 1 # 1 /\ 1 \in 1..Len(s)
    BY <1>2, <1>3
  <2> QED BY <2>1
<1>6. \A l \in 1..Len(s) : s[l] = s[1] \/ \E k \in 1..Len(r) : r[k] = s[l]
  <2> SUFFICES ASSUME NEW l \in 1..Len(s), l # 1 PROVE \E k \in 1..Len(r) : r[k] = s[l]
    OBVIOUS
  <2>1. l - 1 \in 1..Len(r) /\ l - 1 + 1 = l
    BY <1>2
  <2>2. r[l - 1] = s[l]
    BY <1>3, <2>1
  <2> QED BY <2>1, <2>2
<1>7. 1 \in 1..Len(s)
  BY <1>2
<1> QED BY <1>1, <1>2, <1>4, <1>5, <1>6, <1>7 DEF Loses, r

LEMMA RemoveAtLoses ==
    ASSUME NEW S, NEW s \in Seq(S), NEW k \in 1..Len(s),
           \A j, l \in 1..Len(s) : s[j] = s[l] => j = l
    PROVE  Loses(s, s[k], RemoveAt(s, k), S)
<1> DEFINE r == RemoveAt(s, k)
<1>1. /\ r \in Seq(S) /\ Len(r) = Len(s) - 1
      /\ \A i \in 1..Len(s) - 1 : r[i] = IF i < k THEN s[i] ELSE s[i + 1]
  BY RemoveAtProperties
<1> HIDE DEF r
<1>2. Len(s) \in Nat
  BY LenProperties
<1>3. \A i \in 1..Len(r) : /\ i < k => r[i] = s[i] /\ i \in 1..Len(s)
                           /\ i >= k => r[i] = s[i + 1] /\ i + 1 \in 1..Len(s)
  BY <1>1, <1>2
<1>4. \A i, l \in 1..Len(r) : r[i] = r[l] => i = l
  <2> SUFFICES ASSUME NEW i \in 1..Len(r), NEW l \in 1..Len(r), r[i] = r[l] PROVE i = l
    OBVIOUS
  <2> DEFINE x == IF i < k THEN i ELSE i + 1
             y == IF l < k THEN l ELSE l + 1
  <2>1. r[i] = s[x] /\ r[l] = s[y] /\ x \in 1..Len(s) /\ y \in 1..Len(s)
    BY <1>3
  <2>2. x = y
    <3> HIDE DEF x, y
    <3> QED BY <2>1
  <2> QED BY <1>1, <1>2, <2>2
<1>5. \A i \in 1..Len(r) : r[i] # s[k] /\ \E l \in 1..Len(s) : s[l] = r[i]
  <2> SUFFICES ASSUME NEW i \in 1..Len(r) PROVE r[i] # s[k] /\ \E l \in 1..Len(s) : s[l] = r[i]
    OBVIOUS
  <2> DEFINE x == IF i < k THEN i ELSE i + 1
  <2>1. r[i] = s[x] /\ x \in 1..Len(s) /\ x # k
    BY <1>1, <1>2, <1>3
  <2> HIDE DEF x
  <2> QED BY <2>1
<1>6. \A l \in 1..Len(s) : s[l] = s[k] \/ \E i \in 1..Len(r) : r[i] = s[l]
  <2> SUFFICES ASSUME NEW l \in 1..Len(s), l # k PROVE \E i \in 1..Len(r) : r[i] = s[l]
    OBVIOUS
  <2> DEFINE x == IF l < k THEN l ELSE l - 1
  <2>1. x \in 1..Len(r) /\ (IF x < k THEN x ELSE x + 1) = l
    BY <1>1, <1>2
  <2> HIDE DEF x
  <2>2. r[x] = s[l]
    BY <1>1, <1>2, <2>1
  <2> QED BY <2>1, <2>2
<1> QED BY <1>1, <1>4, <1>5, <1>6 DEF Loses, r

\* The highest bucket in use once the last node of the highest has been taken.
LEMMA LastAfterSound ==
    ASSUME AllocatorTyped, AllocatorExact, NEW i \in 1..last, buf[i] # <<>>
    PROVE  LastIs(Changed(buf, i, Tail(buf[i])), LastAfter(i))
<1> DEFINE d == Changed(buf, i, Tail(buf[i]))
<1>1. /\ last \in 0..MaxIndex - 1 /\ MaxIndex \in Nat /\ (last = 0 \/ buf[last] # <<>>)
      /\ \A j \in last + 1..MaxIndex - 1 : buf[j] = <<>>
  BY AllocatorAssumption DEF AllocatorExact, LastIs
<1>2. /\ i \in 0..MaxIndex - 1 /\ buf[i] \in Seq(heap)
      /\ d[i] = Tail(buf[i]) /\ \A j \in 0..MaxIndex - 1 : j # i => d[j] = buf[j]
  BY <1>1 DEF AllocatorTyped, BucketsSound, BucketsOf, Changed
<1>3. Len(buf[i]) \in Nat \ {0} /\ Len(d[i]) = Len(buf[i]) - 1
      /\ (d[i] = <<>> <=> Len(buf[i]) = 1)
  <2>1. /\ Len(buf[i]) \in Nat \ {0} /\ Tail(buf[i]) \in Seq(heap)
        /\ Len(Tail(buf[i])) = Len(buf[i]) - 1
    BY <1>2, TailProperties
  <2>2. Tail(buf[i]) = <<>> <=> Len(Tail(buf[i])) = 0
    BY <2>1, EmptySeq
  <2>3. Len(buf[i]) - 1 = 0 <=> Len(buf[i]) = 1
    BY <2>1
  <2>4. Tail(buf[i]) = d[i]
    BY <1>2
  <2> QED BY <2>1, <2>2, <2>3, <2>4
<1> HIDE DEF d
<1>4. CASE i < last \/ Len(buf[i]) > 1
  <2>1. LastAfter(i) = last
    BY <1>4 DEF LastAfter
  <2>2. d[last] # <<>>
    <3>1. CASE i < last
      BY <1>1, <1>2, <3>1
    <3>2. CASE i = last /\ Len(buf[i]) > 1
      BY <1>3, <3>2
    <3> QED BY <1>1, <1>4, <3>1, <3>2
  <2>3. \A j \in last + 1..MaxIndex - 1 : d[j] = <<>>
    BY <1>1, <1>2
  <2> QED BY <1>1, <2>1, <2>2, <2>3 DEF LastIs, d
<1>5. CASE ~(i < last \/ Len(buf[i]) > 1)
  <2> DEFINE T == {0} \cup {j \in 1..i - 1 : buf[j] # <<>>}
             l == Max(T)
  <2>1. LastAfter(i) = l
    BY <1>5 DEF LastAfter
  <2>2. T \subseteq 0..i - 1 /\ T # {} /\ i - 1 \in Nat
    OBVIOUS
  <2>3. l \in T /\ \A y \in T : l >= y
    <3> HIDE DEF T
    <3> QED BY <2>2, GreatestNumber
  <2>4. l \in 0..i - 1 /\ (l = 0 \/ buf[l] # <<>>)
    BY <2>2, <2>3
  <2>5. \A j \in 1..i - 1 : buf[j] # <<>> => j <= l
    BY <2>3
  <2> HIDE DEF l
  <2>6. i = last /\ d[i] = <<>>
    BY <1>1, <1>3, <1>5
  <2>7. l = 0 \/ d[l] # <<>>
    BY <1>1, <1>2, <2>4
  <2>8. ASSUME NEW j \in l + 1..MaxIndex - 1 PROVE d[j] = <<>>
    <3>1. CASE j = i
      BY <2>6, <3>1
    <3>2. CASE j < i
      BY <1>1, <1>2, <2>4, <2>5, <3>2
    <3>3. CASE j > i
      BY <1>1, <1>2, <2>6, <3>3
    <3> QED BY <3>1, <3>2, <3>3
  <2> QED BY <1>1, <2>1, <2>4, <2>6, <2>7, <2>8 DEF LastIs, d
<1> QED BY <1>4, <1>5

\* What alloc guarantees of the node it returns.
Obtained(n, size) ==
    /\ n \in heap' /\ heap' = Plus(heap, n) /\ heap \subseteq heap'
    /\ (n \in Kept \/ n \notin heap)
    /\ Kept' = Minus(Kept, n) /\ n \notin Kept'
    /\ \A m \in heap : index'[m] = index[m]
    /\ Header + size <= Capacity(n)'
    /\ max' = max

LEMMA FromBucketSound ==
    ASSUME AllocatorTyped, AllocatorExact, NEW size \in Nat, NEW n, FromBucket(Wanted(size), n)
    PROVE  AllocatorTyped' /\ AllocatorExact' /\ Obtained(n, size)
<1> DEFINE want == Wanted(size)
           i == Min(Waiting(want))
<1>1. want \in Nat \ {0} /\ \A j \in Nat : j >= want => Header + size <= (j + 1) * Boundary
  BY WantedHolds
<1>2. /\ n = Head(buf[i]) /\ buf' = Changed(buf, i, Tail(buf[i])) /\ last' = LastAfter(i)
      /\ CountTaken(n) /\ UNCHANGED <<heap, index, allocated, max>>
      /\ Waiting(want) # {}
  BY DEF FromBucket, Changed
<1> HIDE DEF want
<1>3. last \in 0..MaxIndex - 1 /\ MaxIndex \in Nat
  BY AllocatorAssumption DEF AllocatorTyped
<1>4. i \in Waiting(want)
  <2>1. Waiting(want) \subseteq Nat
    BY <1>1, <1>3 DEF Waiting
  <2> QED BY <1>2, <2>1, LeastNatural
<1> HIDE DEF i
<1>5. i \in want..last /\ i \in 1..last /\ i \in 0..MaxIndex - 1 /\ buf[i] # <<>>
  BY <1>1, <1>3, <1>4 DEF Waiting
<1>6. buf[i] \in Seq(heap) /\ \A k, l \in 1..Len(buf[i]) : buf[i][k] = buf[i][l] => k = l
  BY <1>5 DEF AllocatorTyped, BucketsSound, BucketsOf
<1>7. Loses(buf[i], n, Tail(buf[i]), heap)
  BY <1>2, <1>5, <1>6, TailLoses
<1>8. LastIs(buf', last')
  BY <1>2, <1>5, LastAfterSound
<1>9. last' \in 0..MaxIndex - 1
  BY <1>8 DEF LastIs
<1>10. /\ AllocatorTyped' /\ RoomIs(buf', current', index', max')
       /\ n \in Kept /\ n \in heap /\ Kept' = Minus(Kept, n)
  BY <1>2, <1>5, <1>7, <1>9, TakenSound
<1>11. index[n] = i
  <2>1. Len(buf[i]) \in Nat \ {0} /\ n = buf[i][1]
    BY <1>2, <1>5, <1>6, TailProperties
  <2>2. i = BucketOf(index[n])
    BY <1>5, <2>1 DEF AllocatorTyped, BucketsSound
  <2> QED BY <1>5, <2>2 DEF BucketOf
<1>12. Header + size <= Capacity(n)'
  <2>1. i \in Nat /\ i >= want
    BY <1>1, <1>5
  <2> QED BY <1>1, <1>2, <1>11, <2>1 DEF Capacity, Pages
<1>13. Obtained(n, size)
  BY <1>2, <1>10, <1>12 DEF Obtained, Plus, Minus
<1> QED BY <1>8, <1>10, <1>13 DEF AllocatorExact

LEMMA FromSinkSound ==
    ASSUME AllocatorTyped, AllocatorExact, NEW size \in Nat, NEW n, FromSink(Wanted(size), n)
    PROVE  AllocatorTyped' /\ AllocatorExact' /\ Obtained(n, size)
<1> DEFINE want == Wanted(size)
           k == Min(LargeEnough(want))
<1>1. want \in Nat \ {0} /\ \A j \in Nat : j >= want => Header + size <= (j + 1) * Boundary
  BY WantedHolds
<1>2. /\ n = buf[0][k] /\ buf' = Changed(buf, 0, RemoveAt(buf[0], k))
      /\ CountTaken(n) /\ UNCHANGED <<heap, index, last, allocated, max>>
      /\ LargeEnough(want) # {}
  BY DEF FromSink, Changed
<1> HIDE DEF want
<1>3. last \in 0..MaxIndex - 1 /\ MaxIndex \in Nat /\ 0 \in 0..MaxIndex - 1
  BY AllocatorAssumption DEF AllocatorTyped
<1>4. buf[0] \in Seq(heap) /\ \A j, l \in 1..Len(buf[0]) : buf[0][j] = buf[0][l] => j = l
  BY <1>3 DEF AllocatorTyped, BucketsSound, BucketsOf
<1>5. LargeEnough(want) \subseteq 1..Len(buf[0]) /\ Len(buf[0]) \in Nat
  BY <1>4, LenProperties DEF LargeEnough
<1>6. k \in LargeEnough(want)
  <2>1. LargeEnough(want) \subseteq Nat
    BY <1>5
  <2> QED BY <1>2, <2>1, LeastNatural
<1> HIDE DEF k
<1>7. k \in 1..Len(buf[0]) /\ index[n] >= want
  BY <1>2, <1>5, <1>6 DEF LargeEnough
<1>8. Loses(buf[0], n, RemoveAt(buf[0], k), heap)
  BY <1>2, <1>4, <1>7, RemoveAtLoses
<1>9. LastIs(buf', last')
  <2>1. \A j \in 1..MaxIndex - 1 : buf'[j] = buf[j]
    <3>1. buf = [j \in DOMAIN buf |-> buf[j]] /\ DOMAIN buf = 0..MaxIndex - 1
      BY DEF AllocatorTyped, BucketsSound, BucketsOf
    <3> QED BY <1>2, <3>1 DEF Changed
  <2> QED BY <1>2, <1>3, <2>1 DEF AllocatorExact, LastIs
<1>10. last' \in 0..MaxIndex - 1
  BY <1>9 DEF LastIs
<1>11. /\ AllocatorTyped' /\ RoomIs(buf', current', index', max')
       /\ n \in Kept /\ n \in heap /\ Kept' = Minus(Kept, n)
  BY <1>2, <1>3, <1>8, <1>10, TakenSound
<1>12. Header + size <= Capacity(n)'
  <2>1. index[n] \in Nat
    BY <1>11 DEF AllocatorTyped, Numbered
  <2> QED BY <1>1, <1>2, <1>7, <2>1 DEF Capacity, Pages
<1>13. Obtained(n, size)
  BY <1>2, <1>11, <1>12 DEF Obtained, Plus, Minus
<1> QED BY <1>9, <1>11, <1>13 DEF AllocatorExact

LEMMA FromMallocSound ==
    ASSUME AllocatorTyped, AllocatorExact, NEW size \in Nat, NEW n \in Nodes, FromMalloc(Wanted(size), n)
    PROVE  AllocatorTyped' /\ AllocatorExact' /\ Obtained(n, size)
<1> DEFINE want == Wanted(size)
<1>1. want \in Nat \ {0} /\ \A j \in Nat : j >= want => Header + size <= (j + 1) * Boundary
  BY WantedHolds
<1>2. /\ n \notin heap /\ heap' = Plus(heap, n)
      /\ index' = [index EXCEPT ![n] = want] /\ allocated' = allocated + want + 1
      /\ UNCHANGED <<buf, last, current, max>>
  BY DEF FromMalloc, Plus
<1> HIDE DEF want
<1>3. /\ Numbered(index') /\ index'[n] = want
      /\ \A m \in Nodes : m # n => index'[m] = index[m]
  BY <1>1, <1>2 DEF AllocatorTyped, Numbered
<1>4. /\ heap \subseteq Nodes /\ heap' \subseteq Nodes /\ heap \subseteq heap'
      /\ n \in heap' /\ \A m \in heap : index'[m] = index[m]
  BY <1>2, <1>3 DEF AllocatorTyped, Plus
<1>5. \A m \in Nodes : index'[m] = 0 <=> m \notin heap'
  BY <1>1, <1>2, <1>3 DEF AllocatorTyped, Plus
<1>6. allocated' = PagesIn(index', heap')
  <2>1. PagesIn(index', heap) = PagesIn(index, heap)
    BY <1>4, PagesAgree
  <2>2. PagesIn(index', Plus(heap, n)) = PagesIn(index', heap) + index'[n] + 1
    BY <1>2, <1>3, <1>4, PagesMore
  <2>3. allocated = PagesIn(index, heap)
    BY DEF AllocatorTyped
  <2> QED BY <1>2, <1>3, <2>1, <2>2, <2>3
<1>7. BucketsOf(buf, heap)
  BY DEF AllocatorTyped, BucketsSound
<1>8. BucketsSound(buf, heap', index')
  <2>1. BucketsOf(buf, heap')
    <3>1. \A i \in 0..MaxIndex - 1 : buf[i] \in Seq(heap')
      <4> SUFFICES ASSUME NEW i \in 0..MaxIndex - 1 PROVE buf[i] \in Seq(heap')
        OBVIOUS
      <4>1. buf[i] \in Seq(heap)
        BY <1>7 DEF BucketsOf
      <4> QED BY <1>4, <4>1
    <3> QED BY <1>7, <3>1 DEF BucketsOf
  <2>2. \A i \in 0..MaxIndex - 1 : \A k \in 1..Len(buf[i]) : buf[i][k] \in heap
    <3> SUFFICES ASSUME NEW i \in 0..MaxIndex - 1, NEW k \in 1..Len(buf[i]) PROVE buf[i][k] \in heap
      OBVIOUS
    <3>1. buf[i] \in Seq(heap)
      BY <1>7 DEF BucketsOf
    <3> QED BY <3>1, ElementOfSeq
  <2>3. \A i \in 0..MaxIndex - 1 : \A k \in 1..Len(buf[i]) : i = BucketOf(index'[buf[i][k]])
    BY <1>4, <2>2 DEF AllocatorTyped, BucketsSound
  <2> QED BY <2>1, <2>3 DEF AllocatorTyped, BucketsSound
<1>9. AllocatorTyped'
  BY <1>2, <1>3, <1>4, <1>5, <1>6, <1>8 DEF AllocatorTyped
<1>10. InBuckets(buf) \subseteq heap
  BY <1>7, InBucketsIs
<1>11. AllocatorExact'
  <2>1. PagesIn(index', InBuckets(buf)) = PagesIn(index, InBuckets(buf))
    BY <1>4, <1>10, PagesAgree
  <2> QED BY <1>2, <2>1 DEF AllocatorExact, LastIs, RoomIs
<1>12. Header + size <= Capacity(n)'
  <2>1. want \in Nat /\ want >= want
    BY <1>1
  <2> QED BY <1>1, <1>3, <2>1 DEF Capacity, Pages
<1>13. Kept' = Kept /\ n \notin Kept
  BY <1>2, <1>10, KeptIs
<1>14. Obtained(n, size)
  BY <1>2, <1>4, <1>12, <1>13 DEF Obtained, Minus
<1> QED BY <1>9, <1>11, <1>14

\* alloc returns a node that is large enough and that nobody has, and keeps its
\* buckets and summaries right.
LEMMA AllocSound ==
    ASSUME AllocatorTyped, AllocatorExact, NEW size \in Nat, NEW n \in Nodes, Alloc(size, n)
    PROVE  AllocatorTyped' /\ AllocatorExact' /\ Obtained(n, size)
BY FromBucketSound, FromSinkSound, FromMallocSound DEF Alloc

-------------------------------------------------------------------------------
\* free.

\* The allocator a after the nodes in S have been put back.
PutSound(a, S) ==
    /\ a = [buf |-> a.buf, last |-> a.last, current |-> a.current, back |-> a.back]
    /\ BucketsSound(a.buf, heap, index) /\ LastIs(a.buf, a.last)
    /\ a.current \in 0..max /\ RoomIs(a.buf, a.current, index, max)
    /\ a.back \subseteq S /\ InBuckets(a.buf) = Kept \cup (S \ a.back)

\* A node joins bucket i: the highest bucket in use.
LEMMA LastWithOne ==
    ASSUME NEW b, NEW S, BucketsOf(b, S), NEW l, LastIs(b, l), NEW i \in 0..MaxIndex - 1, NEW n \in S,
           NEW m, m = IF b[i] = <<>> THEN Max({l, i}) ELSE l
    PROVE  LastIs(Changed(b, i, <<n>> \o b[i]), m)
<1> DEFINE d == Changed(b, i, <<n>> \o b[i])
<1>1. /\ l \in 0..MaxIndex - 1 /\ MaxIndex \in Nat /\ (l = 0 \/ b[l] # <<>>)
      /\ \A j \in l + 1..MaxIndex - 1 : b[j] = <<>>
  BY AllocatorAssumption DEF LastIs
<1>2. d[i] = <<n>> \o b[i] /\ b[i] \in Seq(S) /\ \A j \in 0..MaxIndex - 1 : j # i => d[j] = b[j]
  BY DEF BucketsOf, Changed
<1>3. d[i] # <<>>
  <2>1. Len(<<n>> \o b[i]) = Len(b[i]) + 1 /\ Len(b[i]) \in Nat
    BY <1>2, ConsProperties, LenProperties
  <2> QED BY <1>2, <2>1
<1>4. Max({l, i}) = IF l >= i THEN l ELSE i
  <2>1. l \in Int /\ i \in Int
    BY <1>1
  <2> QED BY <2>1, LargerOfTwo
<1>5. m \in 0..MaxIndex - 1 /\ m >= l /\ m >= i /\ (m = l \/ m = i)
  <2>1. CASE b[i] = <<>>
    BY <1>1, <1>4, <2>1
  <2>2. CASE b[i] # <<>>
    <3>1. ~(i \in l + 1..MaxIndex - 1)
      BY <1>1, <2>2
    <3> QED BY <1>1, <2>2, <3>1
  <2> QED BY <2>1, <2>2
<1> HIDE DEF d
<1>6. m = 0 \/ d[m] # <<>>
  BY <1>1, <1>2, <1>3, <1>5
<1>7. \A j \in m + 1..MaxIndex - 1 : d[j] = <<>>
  BY <1>1, <1>2, <1>5
<1> QED BY <1>5, <1>6, <1>7 DEF LastIs, d

LEMMA PutOneSound ==
    ASSUME AllocatorTyped, NEW a, NEW S, S \subseteq heap, PutSound(a, S), NEW n \in heap,
           n \notin S, n \notin Kept
    PROVE  PutSound(Put(a, n), Plus(S, n))
<1> DEFINE i == IF index[n] < MaxIndex THEN index[n] ELSE 0
<1>1. /\ heap \subseteq Nodes /\ Numbered(index) /\ index[n] \in Nat /\ i = BucketOf(index[n])
      /\ i \in 0..MaxIndex - 1
  BY AllocatorAssumption DEF AllocatorTyped, Numbered, BucketOf
<1> HIDE DEF i
<1>2. CASE max # 0 /\ Pages(n) > a.current
  <2>1. Put(a, n) = [a EXCEPT !.back = @ \cup {n}]
    BY <1>2 DEF Put
  <2> DEFINE d == Put(a, n)
  <2>2. /\ d.buf = a.buf /\ d.last = a.last /\ d.current = a.current /\ d.back = a.back \cup {n}
        /\ d = [buf |-> d.buf, last |-> d.last, current |-> d.current, back |-> d.back]
    BY <2>1 DEF PutSound
  <2> HIDE DEF d
  <2>3. d.back \subseteq Plus(S, n) /\ Kept \cup (S \ a.back) = Kept \cup (Plus(S, n) \ d.back)
    BY <2>2 DEF PutSound, Plus
  <2> QED BY <2>2, <2>3 DEF PutSound, d
<1>3. CASE ~(max # 0 /\ Pages(n) > a.current)
  <2>1. Put(a, n) = [a EXCEPT !.buf[i] = <<n>> \o @,
                              !.last = IF a.buf[i] = <<>> THEN Max({@, i}) ELSE @,
                              !.current = Max({0, @ - Pages(n)})]
    BY <1>3 DEF Put, i
  <2> DEFINE d == Put(a, n)
  <2>2. /\ d.buf = Changed(a.buf, i, <<n>> \o a.buf[i])
        /\ d.last = (IF a.buf[i] = <<>> THEN Max({a.last, i}) ELSE a.last)
        /\ d.current = Max({0, a.current - Pages(n)}) /\ d.back = a.back
        /\ d = [buf |-> d.buf, last |-> d.last, current |-> d.current, back |-> d.back]
    <3> DEFINE b == a.buf
               l == a.last
               c == a.current
               k == a.back
    <3>1. a = [buf |-> b, last |-> l, current |-> c, back |-> k]
      BY DEF PutSound
    <3> HIDE DEF b, l, c, k
    <3>2. d = [buf |-> [b EXCEPT ![i] = <<n>> \o @],
               last |-> IF b[i] = <<>> THEN Max({l, i}) ELSE l,
               current |-> Max({0, c - Pages(n)}), back |-> k]
      BY <2>1, <3>1
    <3>3. [b EXCEPT ![i] = <<n>> \o @] = Changed(b, i, <<n>> \o b[i])
      BY DEF Changed
    <3> HIDE DEF d
    <3> QED BY <3>2, <3>3 DEF b, l, c, k
  <2> HIDE DEF d
  <2>3. BucketsSound(a.buf, heap, index) /\ BucketsOf(a.buf, heap) /\ LastIs(a.buf, a.last)
    BY DEF PutSound, BucketsSound
  <2>4. n \notin InBuckets(a.buf)
    BY DEF PutSound
  <2>5. BucketsSound(d.buf, heap, index) /\ InBuckets(d.buf) = Plus(InBuckets(a.buf), n)
    BY <1>1, <2>2, <2>3, <2>4, BucketMore
  <2>6. LastIs(d.buf, d.last)
    <3> DEFINE b == a.buf
               l == a.last
               m == d.last
    <3>1. BucketsOf(b, heap) /\ LastIs(b, l) /\ m = (IF b[i] = <<>> THEN Max({l, i}) ELSE l)
      BY <2>2, <2>3
    <3>2. d.buf = Changed(b, i, <<n>> \o b[i])
      BY <2>2
    <3> HIDE DEF b, l, m
    <3>3. LastIs(Changed(b, i, <<n>> \o b[i]), m)
      BY <1>1, <3>1, LastWithOne
    <3> QED BY <3>2, <3>3 DEF m
  <2> DEFINE x == PagesIn(index, InBuckets(a.buf))
             y == PagesIn(index, Plus(InBuckets(a.buf), n))
  <2>7. x \in Nat /\ y \in Nat /\ y = x + index[n] + 1
    <3>1. InBuckets(a.buf) \subseteq heap
      BY <2>3, InBucketsIs
    <3>2. InBuckets(a.buf) \subseteq Nodes /\ n \in Nodes
      BY <1>1, <3>1
    <3> QED BY <1>1, <2>4, <3>2, PagesMore
  <2> HIDE DEF x, y
  <2>8. max \in Nat /\ a.current \in 0..max /\ (max # 0 => x + a.current = max)
    BY DEF AllocatorTyped, PutSound, RoomIs, x
  <2>9. d.current = (IF 0 >= a.current - (index[n] + 1) THEN 0 ELSE a.current - (index[n] + 1))
    <3> DEFINE z == a.current - (index[n] + 1)
    <3>1. z \in Int /\ 0 \in Int
      BY <1>1, <2>8
    <3>2. d.current = Max({0, z})
      BY <2>2 DEF Pages
    <3> HIDE DEF z
    <3>3. d.current = IF 0 >= z THEN 0 ELSE z
      BY <3>1, <3>2, LargerOfTwo
    <3> QED BY <3>3 DEF z
  <2>10. d.current \in 0..max /\ (max # 0 => y + d.current = max)
    <3>1. max # 0 => index[n] + 1 <= a.current
      BY <1>1, <1>3, <2>8 DEF Pages
    <3>2. CASE max = 0
      BY <1>1, <2>8, <2>9, <3>2
    <3>3. CASE max # 0
      <4>1. d.current = a.current - (index[n] + 1)
        BY <1>1, <2>8, <2>9, <3>1, <3>3
      <4> QED BY <1>1, <2>7, <2>8, <3>1, <3>3, <4>1
    <3> QED BY <3>2, <3>3
  <2>11. RoomIs(d.buf, d.current, index, max)
    BY <2>5, <2>10 DEF RoomIs, y
  <2>12. d.back \subseteq Plus(S, n)
    BY <2>2 DEF PutSound, Plus
  <2>13. InBuckets(d.buf) = Kept \cup (Plus(S, n) \ d.back)
    BY <2>2, <2>5 DEF PutSound, Plus
  <2> QED BY <2>2, <2>5, <2>6, <2>10, <2>11, <2>12, <2>13 DEF PutSound, d
<1> QED BY <1>2, <1>3

\* The allocator after each of the first k nodes of c has been put back.
Start == [buf |-> buf, last |-> last, current |-> current, back |-> {}]
Puts(g, c, k) == g = [j \in 0..k |-> IF j = 0 THEN Start ELSE Put(g[j - 1], c[j])]

\* The nodes of a list can be put back one after the other.
LEMMA PutsExist ==
    ASSUME NEW c
    PROVE  \A k \in Nat : \E g : Puts(g, c, k)
<1> DEFINE S == {k \in Nat : \E g : Puts(g, c, k)}
<1>1. ASSUME NEW k \in Nat, \A j \in 0..k - 1 : j \in S PROVE k \in S
  <2>1. CASE k = 0
    <3> DEFINE g == [j \in 0..k |-> Start]
    <3>1. \A j \in 0..k : j = 0
      BY <2>1
    <3>2. Puts(g, c, k)
      BY <3>1 DEF Puts
    <3> HIDE DEF g
    <3> QED BY <3>2
  <2>2. CASE k # 0
    <3>1. k - 1 \in S
      BY <1>1, <2>2
    <3>2. PICK h : Puts(h, c, k - 1)
      BY <3>1
    <3> DEFINE g == [j \in 0..k |-> IF j = k THEN Put(h[k - 1], c[k]) ELSE h[j]]
    <3>3. ASSUME NEW j \in 0..k
          PROVE  g[j] = IF j = 0 THEN Start ELSE Put(g[j - 1], c[j])
      <4>1. CASE j = k
        <5>1. g[j] = Put(h[k - 1], c[k])
          BY <4>1
        <5>2. k - 1 \in 0..k /\ k - 1 # k
          BY <2>2
        <5>3. g[k - 1] = h[k - 1]
          BY <5>2
        <5> HIDE DEF g
        <5> QED BY <2>2, <4>1, <5>1, <5>3
      <4>2. CASE j # k /\ j = 0
        <5>1. g[j] = h[j] /\ j \in 0..k - 1
          BY <2>2, <4>2
        <5> HIDE DEF g
        <5> QED BY <3>2, <4>2, <5>1 DEF Puts
      <4>3. CASE j # k /\ j # 0
        <5>1. j \in 0..k - 1 /\ j - 1 \in 0..k /\ j - 1 # k
          BY <4>3
        <5>2. g[j] = h[j] /\ g[j - 1] = h[j - 1]
          BY <4>3, <5>1
        <5>3. h[j] = Put(h[j - 1], c[j])
          BY <3>2, <4>3, <5>1 DEF Puts
        <5> HIDE DEF g
        <5> QED BY <4>3, <5>2, <5>3
      <4> QED BY <4>1, <4>2, <4>3
    <3>4. Puts(g, c, k)
      <4>1. g = [j \in 0..k |-> g[j]]
        OBVIOUS
      <4> HIDE DEF g
      <4> QED BY <3>3, <4>1 DEF Puts
    <3> HIDE DEF g
    <3> QED BY <3>4
  <2> QED BY <2>1, <2>2
<1> HIDE DEF S
<1>2. S \subseteq Nat
  BY DEF S
<1>3. \A k \in Nat : k \in S
  BY <1>1, <1>2, LeastFailure
<1> QED BY <1>3 DEF S

\* A list of different nodes that nobody keeps can be put back.
Freeable(c) ==
    /\ c \in Seq(heap)
    /\ \A i, j \in 1..Len(c) : c[i] = c[j] => i = j
    /\ \A i \in 1..Len(c) : c[i] \notin Kept

LEMMA AllPutSound ==
    ASSUME AllocatorTyped, AllocatorExact, NEW c, Freeable(c)
    PROVE  PutSound(AllPut(c), ToSet(c))
<1> DEFINE L == Len(c)
           put[k \in 0..L] == IF k = 0 THEN Start ELSE Put(put[k - 1], c[k])
           Done(k) == {c[i] : i \in 1..k}
           S == {k \in Nat : k <= L => PutSound(put[k], Done(k))}
<1>1. L \in Nat /\ \A i \in 1..L : c[i] \in heap
  BY LenProperties, ElementOfSeq DEF Freeable
<1>2. put = [k \in 0..L |-> IF k = 0 THEN Start ELSE Put(put[k - 1], c[k])]
  <2>1. PICK g : Puts(g, c, L)
    BY <1>1, PutsExist
  <2>2. g = [k \in 0..L |-> IF k = 0 THEN Start ELSE Put(g[k - 1], c[k])]
    BY <2>1 DEF Puts
  <2>3. \E h : h = [k \in 0..L |-> IF k = 0 THEN Start ELSE Put(h[k - 1], c[k])]
    BY <2>2
  <2> QED BY <2>3
<1>3. AllPut(c) = put[L]
  BY DEF AllPut, Start
<1> HIDE DEF put
<1>4. ASSUME NEW k \in Nat, \A j \in 0..k - 1 : j \in S PROVE k \in S
  <2> SUFFICES ASSUME k <= L PROVE PutSound(put[k], Done(k))
    OBVIOUS
  <2>1. CASE k = 0
    <3>1. put[k] = Start
      BY <1>1, <1>2, <2>1
    <3>2. Done(k) = {}
      BY <2>1
    <3>3. PutSound(Start, {})
      BY KeptIs DEF PutSound, Start, AllocatorTyped, AllocatorExact
    <3> HIDE DEF Done
    <3> QED BY <3>1, <3>2, <3>3
  <2>2. CASE k # 0
    <3>1. k - 1 \in S /\ k - 1 <= L
      <4>1. k - 1 \in 0..k - 1 /\ k - 1 <= L
        BY <1>1, <2>2
      <4> HIDE DEF S, L
      <4> QED BY <1>4, <4>1
    <3>2. PutSound(put[k - 1], Done(k - 1))
      BY <3>1
    <3>3. put[k] = Put(put[k - 1], c[k])
      BY <1>1, <1>2, <2>2
    <3>4. c[k] \in heap /\ c[k] \notin Kept
      BY <1>1, <2>2 DEF Freeable
    <3>5. Done(k - 1) \subseteq heap /\ c[k] \notin Done(k - 1)
      <4>1. \A i \in 1..k - 1 : i \in 1..Len(c) /\ k \in 1..Len(c) /\ i # k
        BY <1>1, <2>2
      <4>2. \A i \in 1..k - 1 : c[i] \in heap /\ c[i] # c[k]
        BY <1>1, <4>1 DEF Freeable
      <4> HIDE DEF L
      <4> QED BY <4>2
    <3>6. Done(k) = Plus(Done(k - 1), c[k])
      <4>1. \A i \in 1..k : i = k \/ i \in 1..k - 1
        OBVIOUS
      <4>2. \A i \in 1..k - 1 : i \in 1..k
        OBVIOUS
      <4>3. k \in 1..k
        BY <2>2
      <4> QED BY <4>1, <4>2, <4>3 DEF Plus
    <3> HIDE DEF Done
    <3>7. PutSound(Put(put[k - 1], c[k]), Plus(Done(k - 1), c[k]))
      BY <3>2, <3>4, <3>5, PutOneSound
    <3> QED BY <3>3, <3>6, <3>7
  <2> QED BY <2>1, <2>2
<1>5. L \in S
  <2> HIDE DEF S
  <2>1. S \subseteq Nat
    BY DEF S
  <2> QED BY <1>1, <1>4, <2>1, LeastFailure
<1>6. Done(L) = ToSet(c)
  BY <1>1, InList DEF Freeable
<1>7. PutSound(put[L], Done(L))
  <2> HIDE DEF L, Done
  <2> QED BY <1>1, <1>5
<1> HIDE DEF Done, L, S
<1> QED BY <1>3, <1>6, <1>7

\* Two sets of nodes.
LEMMA PagesOfBoth ==
    ASSUME NEW ix, Numbered(ix), NEW S, S \subseteq Nodes, NEW T, T \subseteq S
    PROVE  PagesIn(ix, S \ T) = PagesIn(ix, S) - PagesIn(ix, T)
<1> DEFINE R == S \ T
<1>1. R \subseteq Nodes /\ T \subseteq Nodes /\ R \cap T = {} /\ R \cup T = S
  OBVIOUS
<1> HIDE DEF R
<1>2. IsFiniteSet(R) /\ IsFiniteSet(T)
  BY <1>1, FS_Subset, AllocatorAssumption
<1>3. IsFiniteSet(Sheets(ix, R)) /\ IsFiniteSet(Sheets(ix, T))
  BY <1>1, <1>2, SheetsFinite DEF Numbered
<1>4. PagesIn(ix, R \cup T) = PagesIn(ix, R) + PagesIn(ix, T)
  BY <1>1, <1>3, SheetsOfBoth DEF PagesIn
<1>5. PagesIn(ix, R) \in Nat /\ PagesIn(ix, T) \in Nat /\ PagesIn(ix, S) = PagesIn(ix, R) + PagesIn(ix, T)
  BY <1>1, <1>4, PagesAre
<1>6. PagesIn(ix, R) = PagesIn(ix, S) - PagesIn(ix, T)
  BY <1>5
<1> QED BY <1>6 DEF R

\* What free does to the nodes of a list: some go back to the system, the others
\* are kept.
Released(c) ==
    \E back \in SUBSET ToSet(c) :
        /\ heap' = heap \ back /\ Kept' = Kept \cup (ToSet(c) \ back)
        /\ \A n \in Nodes \ back : index'[n] = index[n]

LEMMA FreeSound ==
    ASSUME AllocatorTyped, AllocatorExact, NEW c, Freeable(c), Free(c)
    PROVE  AllocatorTyped' /\ AllocatorExact' /\ Released(c) /\ max' = max
<1> DEFINE a == AllPut(c)
           back == a.back
<1>1. PutSound(a, ToSet(c))
  BY AllPutSound
<1>2. /\ buf' = a.buf /\ last' = a.last /\ current' = a.current
      /\ heap' = heap \ back /\ allocated' = allocated - PagesOf(back)
      /\ index' = [n \in Nodes |-> IF n \in back THEN 0 ELSE index[n]]
      /\ max' = max
  BY DEF Free
<1> HIDE DEF a
<1>3. /\ BucketsSound(buf', heap, index) /\ LastIs(buf', last') /\ current' \in 0..max
      /\ RoomIs(buf', current', index, max)
      /\ back \subseteq ToSet(c) /\ InBuckets(buf') = Kept \cup (ToSet(c) \ back)
  BY <1>1, <1>2 DEF PutSound
<1> HIDE DEF back
<1>4. ToSet(c) \subseteq heap /\ ToSet(c) \cap Kept = {}
  BY InList DEF Freeable
<1>5. heap \subseteq Nodes /\ Numbered(index)
  BY DEF AllocatorTyped
<1>6. /\ Numbered(index') /\ \A n \in back : index'[n] = 0
      /\ \A n \in Nodes \ back : index'[n] = index[n]
  BY <1>2, <1>3, <1>4, <1>5 DEF Numbered
<1>7. \A n \in heap' : n \in Nodes \ back /\ index'[n] = index[n]
  BY <1>2, <1>5, <1>6
<1>8. BucketsOf(buf', heap)
  BY <1>3 DEF BucketsSound
<1>9. InBuckets(buf') \subseteq heap'
  <2>1. InBuckets(buf') \subseteq heap
    BY <1>8, InBucketsIs
  <2> QED BY <1>2, <1>3, <1>4, <2>1
<1>10. ASSUME NEW i \in 0..MaxIndex - 1, NEW k \in 1..Len(buf'[i]) PROVE buf'[i][k] \in heap'
  <2>1. buf'[i][k] \in InBuckets(buf')
    BY <1>8, InBucketsIs
  <2> QED BY <1>9, <2>1
<1>11. BucketsSound(buf', heap', index')
  <2>1. BucketsOf(buf', heap')
    <3>1. ASSUME NEW i \in 0..MaxIndex - 1 PROVE buf'[i] \in Seq(heap')
      <4>1. buf'[i] \in Seq(heap)
        BY <1>8 DEF BucketsOf
      <4>2. \A k \in 1..Len(buf'[i]) : buf'[i][k] \in heap'
        BY <1>10
      <4> QED BY <4>1, <4>2
    <3> QED BY <1>8, <3>1 DEF BucketsOf
  <2>2. \A i \in 0..MaxIndex - 1 : \A k \in 1..Len(buf'[i]) : i = BucketOf(index'[buf'[i][k]])
    BY <1>3, <1>7, <1>10 DEF BucketsSound
  <2> QED BY <1>3, <2>1, <2>2 DEF BucketsSound
<1>12. allocated' = PagesIn(index', heap')
  <2>1. PagesIn(index, heap \ back) = PagesIn(index, heap) - PagesIn(index, back)
    BY <1>3, <1>4, <1>5, PagesOfBoth
  <2>2. PagesIn(index', heap') = PagesIn(index, heap')
    BY <1>7, PagesAgree
  <2> QED BY <1>2, <2>1, <2>2, PagesOfIs DEF AllocatorTyped
<1>13. \A n \in Nodes : index'[n] = 0 <=> n \notin heap'
  BY <1>2, <1>3, <1>6 DEF AllocatorTyped
<1>14. AllocatorTyped'
  BY <1>2, <1>3, <1>5, <1>6, <1>11, <1>12, <1>13 DEF AllocatorTyped, LastIs
<1>15. AllocatorExact'
  <2>1. PagesIn(index', InBuckets(buf')) = PagesIn(index, InBuckets(buf'))
    BY <1>7, <1>9, PagesAgree
  <2> QED BY <1>2, <1>3, <2>1 DEF AllocatorExact, RoomIs
<1>16. Released(c)
  BY <1>2, <1>3, <1>6, KeptIs DEF Released
<1> QED BY <1>2, <1>14, <1>15, <1>16

\* ~Allocator gives back what it keeps.
LEMMA FreeAllSound ==
    ASSUME AllocatorTyped, FreeAll
    PROVE  AllocatorTyped' /\ heap' = heap \ Kept /\ Kept' = {}
<1>1. /\ buf' = [i \in DOMAIN buf |-> <<>>] /\ heap' = heap \ Kept
      /\ allocated' = allocated - PagesOf(Kept)
      /\ index' = [n \in Nodes |-> IF n \in Kept THEN 0 ELSE index[n]]
      /\ UNCHANGED <<last, current, max>>
  BY DEF FreeAll
<1>2. /\ heap \subseteq Nodes /\ Numbered(index) /\ BucketsOf(buf, heap)
  BY DEF AllocatorTyped, BucketsSound
<1>3. Kept \subseteq heap
  BY <1>2, InBucketsIs, KeptIs
<1>4. Numbered(index') /\ \A n \in heap' : index'[n] = index[n]
  BY <1>1, <1>2, <1>3 DEF Numbered
<1>5. BucketsOf(buf', heap') /\ \A i \in 0..MaxIndex - 1 : buf'[i] = <<>>
  BY <1>1, <1>2 DEF BucketsOf
<1>6. \A i \in 0..MaxIndex - 1 : 1..Len(buf'[i]) = {}
  BY <1>5
<1>7. BucketsSound(buf', heap', index')
  BY <1>5, <1>6 DEF BucketsSound
<1>8. Kept' = {}
  BY <1>5, <1>6, InBucketsIs, KeptIs
<1>9. allocated' = PagesIn(index', heap')
  <2>1. PagesIn(index, heap \ Kept) = PagesIn(index, heap) - PagesIn(index, Kept)
    BY <1>2, <1>3, PagesOfBoth
  <2>2. PagesIn(index', heap') = PagesIn(index, heap')
    BY <1>4, PagesAgree
  <2> QED BY <1>1, <2>1, <2>2, PagesOfIs DEF AllocatorTyped
<1>10. \A n \in Nodes : index'[n] = 0 <=> n \notin heap'
  BY <1>1, <1>3 DEF AllocatorTyped
<1> QED BY <1>1, <1>2, <1>4, <1>7, <1>8, <1>9, <1>10 DEF AllocatorTyped

-------------------------------------------------------------------------------
\* Lists without repetition.

Distinct(s) == \A i, j \in 1..Len(s) : s[i] = s[j] => i = j

\* s lists the elements of T, which are in S, each once.
Lists(s, S, T) == s \in Seq(S) /\ Distinct(s) /\ ToSet(s) = T

LEMMA ListsIs ==
    ASSUME NEW s, NEW S, NEW T, Lists(s, S, T)
    PROVE  /\ s \in Seq(S) /\ Len(s) \in Nat /\ T \subseteq S
           /\ \A x : x \in T <=> \E i \in 1..Len(s) : s[i] = x
           /\ s = <<>> <=> T = {}
<1>1. s \in Seq(S) /\ ToSet(s) = T /\ Len(s) \in Nat
  BY LenProperties DEF Lists
<1>2. ToSet(s) \subseteq S /\ \A x : x \in ToSet(s) <=> \E i \in 1..Len(s) : s[i] = x
  BY <1>1, InList
<1>3. s # <<>> => Len(s) # 0
  BY <1>1, EmptySeq
<1>4. s = <<>> => Len(s) = 0
  OBVIOUS
<1>5. Len(s) # 0 => 1 \in 1..Len(s)
  BY <1>1
<1>6. s = <<>> <=> T = {}
  BY <1>1, <1>2, <1>3, <1>4, <1>5
<1> QED BY <1>1, <1>2, <1>6

LEMMA ListsEmpty == \A S : Lists(<<>>, S, {})
<1> SUFFICES ASSUME NEW S PROVE Lists(<<>>, S, {})
  OBVIOUS
<1>1. <<>> \in Seq(S) /\ Len(<<>>) = 0
  OBVIOUS
<1>2. 1..Len(<<>>) = {}
  BY <1>1
<1>3. ToSet(<<>>) = {}
  BY <1>1, <1>2, InList
<1> QED BY <1>1, <1>2, <1>3 DEF Lists, Distinct

\* An element more, at place k.
LEMMA ListsInsert ==
    ASSUME NEW s, NEW S, NEW T, Lists(s, S, T), NEW e \in S, e \notin T, NEW k \in 1..Len(s) + 1
    PROVE  Lists(InsertAt(s, k, e), S, Plus(T, e))
<1> DEFINE r == InsertAt(s, k, e)
<1>1. s \in Seq(S) /\ Len(s) \in Nat /\ \A x : x \in T <=> \E i \in 1..Len(s) : s[i] = x
  BY ListsIs
<1>2. /\ r \in Seq(S) /\ Len(r) = Len(s) + 1
      /\ \A i \in 1..Len(s) + 1 : r[i] = IF i < k THEN s[i] ELSE IF i = k THEN e ELSE s[i - 1]
  BY <1>1, InsertAtProperties
<1> HIDE DEF r
<1>3. \A i \in 1..Len(s) : s[i] # e
  BY <1>1
<1>4. ASSUME NEW i \in 1..Len(r), NEW j \in 1..Len(r), r[i] = r[j] PROVE i = j
  <2> DEFINE x == IF i < k THEN i ELSE i - 1
             y == IF j < k THEN j ELSE j - 1
  <2>1. i # k => x \in 1..Len(s) /\ r[i] = s[x]
    BY <1>1, <1>2
  <2>2. j # k => y \in 1..Len(s) /\ r[j] = s[y]
    BY <1>1, <1>2
  <2>3. (i = k => r[i] = e) /\ (j = k => r[j] = e)
    BY <1>2
  <2>4. i # k /\ j # k => x = y
    <3> HIDE DEF x, y
    <3> QED BY <1>4, <2>1, <2>2 DEF Lists, Distinct
  <2>5. (i = k) <=> (j = k)
    <3> HIDE DEF x, y
    <3> QED BY <1>3, <1>4, <2>1, <2>2, <2>3
  <2> QED BY <1>2, <2>4, <2>5
<1>5. ASSUME NEW x PROVE x \in ToSet(r) <=> x \in T \/ x = e
  <2>1. x \in ToSet(r) <=> \E i \in 1..Len(r) : r[i] = x
    BY <1>2, InList
  <2>2. ASSUME NEW i \in 1..Len(r) PROVE r[i] \in T \/ r[i] = e
    <3> DEFINE y == IF i < k THEN i ELSE i - 1
    <3>1. i = k => r[i] = e
      BY <1>2
    <3>2. i # k => y \in 1..Len(s) /\ r[i] = s[y]
      BY <1>1, <1>2
    <3> HIDE DEF y
    <3> QED BY <1>1, <3>1, <3>2
  <2>3. ASSUME NEW i \in 1..Len(s) PROVE \E j \in 1..Len(r) : r[j] = s[i]
    <3> DEFINE y == IF i < k THEN i ELSE i + 1
    <3>1. y \in 1..Len(r) /\ r[y] = s[i]
      BY <1>1, <1>2
    <3> HIDE DEF y
    <3> QED BY <3>1
  <2>4. k \in 1..Len(r) /\ r[k] = e
    BY <1>1, <1>2
  <2> QED BY <1>1, <2>1, <2>2, <2>3, <2>4
<1>6. ToSet(r) = Plus(T, e)
  BY <1>5 DEF Plus
<1> QED BY <1>2, <1>4, <1>6 DEF Lists, Distinct, r

\* An element in front.
LEMMA ListsCons ==
    ASSUME NEW s, NEW S, NEW T, Lists(s, S, T), NEW e \in S, e \notin T
    PROVE  Lists(<<e>> \o s, S, Plus(T, e))
<1>1. s \in Seq(S) /\ Len(s) \in Nat
  BY ListsIs
<1>2. 1 \in 1..Len(s) + 1
  BY <1>1
<1> DEFINE r == InsertAt(s, 1, e)
           d == <<e>> \o s
<1>3. /\ r \in Seq(S) /\ Len(r) = Len(s) + 1
      /\ \A i \in 1..Len(s) + 1 : r[i] = IF i < 1 THEN s[i] ELSE IF i = 1 THEN e ELSE s[i - 1]
  BY <1>1, <1>2, InsertAtProperties
<1>4. /\ d \in Seq(S) /\ Len(d) = Len(s) + 1
      /\ \A i \in 1..Len(s) + 1 : d[i] = IF i = 1 THEN e ELSE s[i - 1]
  BY <1>1, ConsProperties
<1>5. Lists(r, S, Plus(T, e))
  BY <1>2, ListsInsert
<1> HIDE DEF r, d
<1>6. r = d
  <2>1. \A i \in 1..Len(r) : r[i] = d[i]
    BY <1>1, <1>3, <1>4
  <2> QED BY <1>3, <1>4, <2>1, SeqEqual
<1> QED BY <1>5, <1>6 DEF d

LEMMA ListsLoses ==
    ASSUME NEW s, NEW S, NEW T, Lists(s, S, T), NEW e, NEW r, Loses(s, e, r, S)
    PROVE  Lists(r, S, Minus(T, e)) /\ e \in T
<1>1. s \in Seq(S) /\ \A x : x \in T <=> \E i \in 1..Len(s) : s[i] = x
  BY ListsIs
<1>2. /\ r \in Seq(S)
      /\ \A k, l \in 1..Len(r) : r[k] = r[l] => k = l
      /\ \A k \in 1..Len(r) : r[k] # e /\ \E l \in 1..Len(s) : s[l] = r[k]
      /\ \A l \in 1..Len(s) : s[l] = e \/ \E k \in 1..Len(r) : r[k] = s[l]
      /\ \E k \in 1..Len(s) : s[k] = e
  BY DEF Loses
<1>3. \A x : x \in ToSet(r) <=> \E i \in 1..Len(r) : r[i] = x
  BY <1>2, InList
<1>4. ASSUME NEW x PROVE x \in ToSet(r) <=> x \in T /\ x # e
  <2>1. ASSUME x \in ToSet(r) PROVE x \in T /\ x # e
    <3>1. PICK k \in 1..Len(r) : r[k] = x
      BY <1>3, <2>1
    <3>2. PICK l \in 1..Len(s) : s[l] = r[k]
      BY <1>2
    <3> QED BY <1>1, <1>2, <3>1, <3>2
  <2>2. ASSUME x \in T, x # e PROVE x \in ToSet(r)
    <3>1. PICK l \in 1..Len(s) : s[l] = x
      BY <1>1, <2>2
    <3>2. PICK k \in 1..Len(r) : r[k] = s[l]
      BY <1>2, <2>2, <3>1
    <3> QED BY <1>3, <3>1, <3>2
  <2> QED BY <2>1, <2>2
<1>5. ToSet(r) = Minus(T, e)
  BY <1>4 DEF Minus
<1> QED BY <1>1, <1>2, <1>5 DEF Lists, Distinct

\* Without its first element, or that at place k.
LEMMA ListsTail ==
    ASSUME NEW s, NEW S, NEW T, Lists(s, S, T), s # <<>>
    PROVE  Lists(Tail(s), S, Minus(T, Head(s))) /\ Head(s) \in T /\ Head(s) = s[1] /\ 1 \in 1..Len(s)
<1>1. s \in Seq(S) /\ Distinct(s)
  BY DEF Lists
<1>2. Loses(s, Head(s), Tail(s), S)
  BY <1>1, TailLoses DEF Distinct
<1>3. Len(s) \in Nat \ {0} /\ Head(s) = s[1]
  BY <1>1, TailProperties
<1> QED BY <1>2, <1>3, ListsLoses

LEMMA ListsRemove ==
    ASSUME NEW s, NEW S, NEW T, Lists(s, S, T), NEW k \in 1..Len(s)
    PROVE  Lists(RemoveAt(s, k), S, Minus(T, s[k])) /\ s[k] \in T
<1>1. s \in Seq(S) /\ Distinct(s)
  BY DEF Lists
<1>2. Loses(s, s[k], RemoveAt(s, k), S)
  BY <1>1, RemoveAtLoses DEF Distinct
<1> QED BY <1>2, ListsLoses

\* Without e.
LEMMA ListsRemoveFirst ==
    ASSUME NEW s, NEW S, NEW T, Lists(s, S, T), NEW e
    PROVE  Lists(RemoveFirst(s, e), S, Minus(T, e))
<1>1. /\ s \in Seq(S) /\ Len(s) \in Nat
      /\ \A x : x \in T <=> \E i \in 1..Len(s) : s[i] = x
  BY ListsIs
<1>2. CASE \E i \in 1..Len(s) : s[i] = e
  <2> DEFINE I == {i \in 1..Len(s) : s[i] = e}
             k == Min(I)
  <2>1. I \subseteq Nat /\ I # {}
    BY <1>1, <1>2
  <2>2. k \in I
    <3> HIDE DEF I
    <3> QED BY <2>1, LeastNatural
  <2>3. RemoveFirst(s, e) = RemoveAt(s, k)
    BY <1>2 DEF RemoveFirst, SelectInSeq
  <2>4. k \in 1..Len(s) /\ s[k] = e
    BY <2>2
  <2> HIDE DEF k
  <2> QED BY <2>3, <2>4, ListsRemove
<1>3. CASE ~\E i \in 1..Len(s) : s[i] = e
  <2>1. RemoveFirst(s, e) = s
    BY <1>3 DEF RemoveFirst
  <2>2. Minus(T, e) = T
    BY <1>1, <1>3 DEF Minus
  <2> QED BY <2>1, <2>2
<1> QED BY <1>2, <1>3

\* Without the structure of c, when there is one for each cleanup only.
LEMMA ListsWithout ==
    ASSUME NEW s, NEW S, NEW T, Lists(s, S, T), NEW c,
           \A e, f \in T : e.what = c /\ f.what = c => e = f
    PROVE  Lists(Without(s, c), S, {e \in T : e.what # c})
<1>1. /\ s \in Seq(S) /\ Len(s) \in Nat
      /\ \A x : x \in T <=> \E i \in 1..Len(s) : s[i] = x
  BY ListsIs
<1>2. CASE \E i \in 1..Len(s) : s[i].what = c
  <2> DEFINE I == {i \in 1..Len(s) : s[i].what = c}
             k == Min(I)
  <2>1. I \subseteq Nat /\ I # {}
    BY <1>1, <1>2
  <2>2. k \in I
    <3> HIDE DEF I
    <3> QED BY <2>1, LeastNatural
  <2>3. Without(s, c) = RemoveAt(s, k)
    BY <1>2 DEF Without, RemoveFirstMatch, SelectInSeq
  <2>4. k \in 1..Len(s) /\ s[k].what = c
    BY <2>2
  <2> HIDE DEF k
  <2>5. Lists(RemoveAt(s, k), S, Minus(T, s[k])) /\ s[k] \in T
    BY <2>4, ListsRemove
  <2>6. Minus(T, s[k]) = {e \in T : e.what # c}
    BY <2>4, <2>5 DEF Minus
  <2> QED BY <2>3, <2>5, <2>6
<1>3. CASE ~\E i \in 1..Len(s) : s[i].what = c
  <2>1. Without(s, c) = s
    BY <1>3 DEF Without, RemoveFirstMatch
  <2>2. {e \in T : e.what # c} = T
    BY <1>1, <1>3
  <2> QED BY <2>1, <2>2
<1> QED BY <1>2, <1>3

\* From place k on, and then from the beginning.
Turned(s, k) == SubSeq(s, k, Len(s)) \o SubSeq(s, 1, k - 1)

LEMMA ListsTurned ==
    ASSUME NEW s, NEW S, NEW T, Lists(s, S, T), NEW k \in 1..Len(s)
    PROVE  Lists(Turned(s, k), S, T) /\ Turned(s, k) # <<>> /\ Turned(s, k)[1] = s[k]
<1>1. /\ s \in Seq(S) /\ Len(s) \in Nat
      /\ \A x : x \in T <=> \E i \in 1..Len(s) : s[i] = x
  BY ListsIs
<1>2. \A i \in 1..Len(s) : s[i] \in S
  BY <1>1, ElementOfSeq
<1> DEFINE a == SubSeq(s, k, Len(s))
           b == SubSeq(s, 1, k - 1)
           m == Len(s) - k + 1
           r == a \o b
<1>3. /\ a \in Seq(S) /\ Len(a) = m
      /\ \A i \in 1..m : a[i] = s[k + i - 1]
  <2>1. k \in Int /\ Len(s) \in Int /\ \A i \in k..Len(s) : s[i] \in S
    BY <1>1, <1>2
  <2>2. /\ a \in Seq(S) /\ Len(a) = IF k <= Len(s) THEN Len(s) - k + 1 ELSE 0
        /\ \A i \in 1..Len(s) - k + 1 : a[i] = s[k + i - 1]
    BY <2>1, SubSeqProperties
  <2> QED BY <1>1, <2>2
<1>4. /\ b \in Seq(S) /\ Len(b) = k - 1
      /\ \A i \in 1..k - 1 : b[i] = s[i]
  <2>1. \A i \in 1..k - 1 : s[i] \in S
    BY <1>1, <1>2
  <2> QED BY <1>1, <2>1, SubSeqProperties
<1> HIDE DEF a, b
<1>5. /\ r \in Seq(S) /\ Len(r) = Len(a) + Len(b)
      /\ \A i \in 1..Len(a) + Len(b) : r[i] = IF i <= Len(a) THEN a[i] ELSE b[i - Len(a)]
  BY <1>3, <1>4, ConcatProperties
<1> HIDE DEF r
<1>6. Len(r) = Len(s)
  BY <1>1, <1>3, <1>4, <1>5
<1>7. ASSUME NEW i \in 1..Len(s)
      PROVE  /\ i <= m => r[i] = s[k + i - 1] /\ k + i - 1 \in k..Len(s)
             /\ i > m => r[i] = s[i - m] /\ i - m \in 1..k - 1
  <2>1. r[i] = IF i <= m THEN a[i] ELSE b[i - m]
    BY <1>3, <1>5, <1>6
  <2>2. CASE i <= m
    <3>1. i \in 1..m /\ k + i - 1 \in k..Len(s)
      BY <1>1, <2>2
    <3> HIDE DEF m
    <3>2. r[i] = a[i] /\ a[i] = s[k + i - 1]
      BY <1>3, <2>1, <2>2, <3>1
    <3> QED BY <2>2, <3>1, <3>2 DEF m
  <2>3. CASE i > m
    <3>1. i - m \in 1..k - 1 /\ ~(i <= m)
      BY <1>1, <2>3
    <3> HIDE DEF m
    <3>2. r[i] = b[i - m] /\ b[i - m] = s[i - m]
      BY <1>4, <2>1, <3>1
    <3> QED BY <3>1, <3>2 DEF m
  <2> QED BY <1>1, <2>2, <2>3
<1>8. ASSUME NEW i \in 1..Len(r), NEW j \in 1..Len(r), r[i] = r[j] PROVE i = j
  <2> DEFINE x == IF i <= m THEN k + i - 1 ELSE i - m
             y == IF j <= m THEN k + j - 1 ELSE j - m
  <2>1. r[i] = s[x] /\ x \in 1..Len(s)
    BY <1>1, <1>6, <1>7
  <2>2. r[j] = s[y] /\ y \in 1..Len(s)
    BY <1>1, <1>6, <1>7
  <2>3. x = y
    <3> HIDE DEF x, y
    <3> QED BY <1>8, <2>1, <2>2 DEF Lists, Distinct
  <2> QED BY <1>1, <1>6, <2>3
<1>9. ASSUME NEW i \in 1..Len(s) PROVE \E j \in 1..Len(r) : r[j] = s[i]
  <2> DEFINE y == IF i >= k THEN i - k + 1 ELSE i + m
  <2>1. y \in 1..Len(r) /\ (y <= m <=> i >= k) /\ (y <= m => k + y - 1 = i) /\ (y > m => y - m = i)
    BY <1>1, <1>6
  <2> HIDE DEF y
  <2>2. r[y] = s[i]
    BY <1>1, <1>6, <1>7, <2>1
  <2> QED BY <2>1, <2>2
<1>10. ASSUME NEW i \in 1..Len(r) PROVE \E j \in 1..Len(s) : s[j] = r[i]
  <2> DEFINE x == IF i <= m THEN k + i - 1 ELSE i - m
  <2>1. r[i] = s[x] /\ x \in 1..Len(s)
    BY <1>1, <1>6, <1>7
  <2> HIDE DEF x
  <2> QED BY <2>1
<1>11. ToSet(r) = T
  <2>1. \A x : x \in ToSet(r) <=> \E i \in 1..Len(r) : r[i] = x
    BY <1>5, InList
  <2>2. \A x : x \in ToSet(r) <=> x \in T
    BY <1>1, <1>9, <1>10, <2>1
  <2> QED BY <2>2
<1>12. 1 \in 1..Len(s) /\ 1 <= m /\ k + 1 - 1 = k
  BY <1>1
<1>13. r[1] = s[k] /\ r # <<>>
  <2>1. r[1] = s[k]
    BY <1>7, <1>12
  <2>2. Len(r) # 0
    BY <1>6, <1>12
  <2> QED BY <2>1, <2>2
<1> QED BY <1>5, <1>8, <1>11, <1>13 DEF Lists, Distinct, Turned, r, a, b

-------------------------------------------------------------------------------
\* The order of a ring.

\* Behind its first node s is sorted by g, which f records.
Sorted(s, f, g) ==
    \A i \in 2..Len(s) : f[s[i]] = g[s[i]] /\ (i > 2 => g[s[i]] <= g[s[i - 1]])

\* Where the old active node goes: behind those with more free pages.
More(s, free) == {k \in 0..Len(s) - 1 : \A j \in 2..k + 1 : freeIndex[s[j]] > free}

LEMMA DemotedIs ==
    ASSUME NEW s, NEW T, Lists(s, Nodes, T), s # <<>>, NEW free
    PROVE  LET m == Max(More(s, free))
           IN  /\ m \in More(s, free) /\ m + 1 \notin More(s, free)
               /\ Lists(Demoted(s, free), Nodes, T)
               /\ Len(Demoted(s, free)) = Len(s)
               /\ \A i \in 1..Len(s) : Demoted(s, free)[i] =
                    IF i <= m THEN s[i + 1] ELSE IF i = m + 1 THEN s[1] ELSE s[i]
<1> DEFINE M == More(s, free)
           m == Max(M)
           r == Tail(s)
           e == Head(s)
           d == InsertAt(r, m + 1, e)
<1>1. s \in Seq(Nodes) /\ Len(s) \in Nat \ {0}
  BY TailProperties DEF Lists
<1>2. M \subseteq 0..Len(s) - 1 /\ 0 \in M
  BY <1>1 DEF More
<1>3. m \in M /\ \A y \in M : m >= y
  <2>1. Len(s) - 1 \in Nat /\ M # {}
    BY <1>1, <1>2
  <2> HIDE DEF M
  <2> QED BY <1>2, <2>1, GreatestNumber
<1> HIDE DEF M, m
<1>4. m \in 0..Len(s) - 1 /\ m + 1 \notin M
  BY <1>2, <1>3
<1>5. Demoted(s, free) = d
  BY DEF Demoted, d, r, e, m, M, More
<1>6. Lists(r, Nodes, Minus(T, e)) /\ e \in T /\ e = s[1]
  BY ListsTail
<1>7. Len(r) = Len(s) - 1 /\ \A i \in 1..Len(s) - 1 : r[i] = s[i + 1]
  BY <1>1, TailProperties
<1> HIDE DEF r, e
<1>8. m + 1 \in 1..Len(r) + 1
  BY <1>1, <1>4, <1>7
<1>9. e \in Nodes /\ e \notin Minus(T, e) /\ Plus(Minus(T, e), e) = T
  BY <1>6, ListsIs DEF Minus, Plus
<1>10. Lists(d, Nodes, Plus(Minus(T, e), e))
  BY <1>6, <1>8, <1>9, ListsInsert
<1>11. /\ Len(d) = Len(r) + 1
       /\ \A i \in 1..Len(r) + 1 : d[i] =
            IF i < m + 1 THEN r[i] ELSE IF i = m + 1 THEN e ELSE r[i - 1]
  <2>1. r \in Seq(Nodes) /\ e \in Nodes
    BY <1>6, <1>9 DEF Lists
  <2>2. PICK k : k = m + 1
    OBVIOUS
  <2>3. k \in 1..Len(r) + 1 /\ d = InsertAt(r, k, e)
    BY <1>8, <2>2
  <2> HIDE DEF d
  <2>4. /\ Len(InsertAt(r, k, e)) = Len(r) + 1
        /\ \A i \in 1..Len(r) + 1 : InsertAt(r, k, e)[i] =
             IF i < k THEN r[i] ELSE IF i = k THEN e ELSE r[i - 1]
    <3>1. r \in Seq(Nodes) /\ e \in Nodes /\ k \in 1..Len(r) + 1
      BY <2>1, <2>3
    <3> QED BY <3>1, InsertAtProperties
  <2> QED BY <2>2, <2>3, <2>4
<1> HIDE DEF d
<1>12. ASSUME NEW i \in 1..Len(s)
       PROVE  d[i] = IF i <= m THEN s[i + 1] ELSE IF i = m + 1 THEN s[1] ELSE s[i]
  <2>1. d[i] = IF i < m + 1 THEN r[i] ELSE IF i = m + 1 THEN e ELSE r[i - 1]
    BY <1>1, <1>7, <1>11
  <2>2. CASE i <= m
    BY <1>1, <1>4, <1>7, <2>1, <2>2
  <2>3. CASE i = m + 1
    BY <1>4, <1>6, <2>1, <2>3
  <2>4. CASE i > m + 1
    <3>1. i - 1 \in 1..Len(s) - 1 /\ i - 1 + 1 = i /\ ~(i < m + 1) /\ i # m + 1 /\ ~(i <= m)
      BY <1>1, <1>4, <2>4
    <3>2. r[i - 1] = s[i]
      BY <1>7, <3>1
    <3> QED BY <2>1, <3>1, <3>2
  <2> QED BY <1>4, <2>2, <2>3, <2>4
<1>13. Len(d) = Len(s)
  BY <1>1, <1>7, <1>11
<1> QED BY <1>3, <1>4, <1>5, <1>9, <1>10, <1>12, <1>13 DEF m, M

\* The ring stays sorted when node n gets in front of it.
Activation(s, T, n, g, f, h) ==
    /\ Lists(s, Nodes, T) /\ s # <<>> /\ n \in Nodes /\ n \notin T
    /\ freeIndex \in [Nodes -> Int] /\ g \in [Nodes -> Int] /\ Sorted(s, freeIndex, g)
    /\ \A x \in T : h[x] = g[x]
    /\ f[s[1]] = g[s[1]] /\ \A x \in T : x # s[1] => f[x] = freeIndex[x]

LEMMA ActivatedSorted ==
    ASSUME NEW s, NEW T, NEW n, NEW g, NEW f, NEW h, Activation(s, T, n, g, f, h)
    PROVE  /\ Sorted(<<n>> \o Demoted(s, g[s[1]]), f, h)
           /\ Lists(<<n>> \o Demoted(s, g[s[1]]), Nodes, Plus(T, n))
<1>a. /\ Lists(s, Nodes, T) /\ s # <<>> /\ n \in Nodes /\ n \notin T
      /\ freeIndex \in [Nodes -> Int] /\ g \in [Nodes -> Int] /\ Sorted(s, freeIndex, g)
      /\ \A x \in T : h[x] = g[x]
      /\ f[s[1]] = g[s[1]] /\ \A x \in T : x # s[1] => f[x] = freeIndex[x]
  BY DEF Activation
<1> USE <1>a
<1> DEFINE free == g[s[1]]
           m == Max(More(s, free))
           d == Demoted(s, free)
           r == <<n>> \o d
<1>1. s \in Seq(Nodes) /\ Len(s) \in Nat \ {0} /\ (\A i \in 1..Len(s) : s[i] \in Nodes /\ s[i] \in T)
      /\ Distinct(s)
  BY TailProperties, ListsIs, ElementOfSeq DEF Lists
<1>2. /\ m \in More(s, free) /\ m + 1 \notin More(s, free)
      /\ Lists(d, Nodes, T) /\ Len(d) = Len(s)
      /\ \A i \in 1..Len(s) : d[i] = IF i <= m THEN s[i + 1] ELSE IF i = m + 1 THEN s[1] ELSE s[i]
  BY DemotedIs
<1> HIDE DEF m, d
<1>0. m \in 0..Len(s) - 1 /\ Len(s) \in Nat
  BY <1>1, <1>2 DEF More
<1>3. m \in 0..Len(s) - 1 /\ \A j \in 2..m + 1 : freeIndex[s[j]] > free
  BY <1>2 DEF More
<1>4. m + 2 <= Len(s) => ~(freeIndex[s[m + 2]] > free)
  <2> SUFFICES ASSUME m + 2 <= Len(s), freeIndex[s[m + 2]] > free PROVE m + 1 \in More(s, free)
    BY <1>2
  <2>1. m + 1 \in 0..Len(s) - 1 /\ m + 1 + 1 = m + 2
    BY <1>0
  <2>2. ASSUME NEW j \in 2..m + 2 PROVE freeIndex[s[j]] > free
    <3>1. j = m + 2 \/ j \in 2..m + 1
      BY <1>3
    <3> QED BY <1>3, <3>1
  <2> QED BY <2>1, <2>2 DEF More
<1>5. Lists(r, Nodes, Plus(T, n))
  BY <1>2, ListsCons
<1>6. /\ Len(r) = Len(d) + 1
      /\ \A i \in 1..Len(d) + 1 : r[i] = IF i = 1 THEN n ELSE d[i - 1]
  BY <1>2, ConsProperties DEF Lists
<1> HIDE DEF r
<1> DEFINE Old(i) == IF i <= m + 1 THEN i ELSE IF i = m + 2 THEN 1 ELSE i - 1
<1>7. ASSUME NEW i \in 2..Len(r)
      PROVE  r[i] = s[Old(i)] /\ Old(i) \in 1..Len(s)
  <2>0. Len(d) = Len(s) /\ Len(r) = Len(d) + 1
    BY <1>2, <1>6
  <2>1. i - 1 \in 1..Len(s) /\ i - 1 + 1 = i /\ i # 1 /\ i \in 1..Len(d) + 1
    BY <1>0, <2>0
  <2>2. r[i] = d[i - 1]
    BY <1>6, <2>1
  <2>3. d[i - 1] = IF i - 1 <= m THEN s[i - 1 + 1] ELSE IF i - 1 = m + 1 THEN s[1] ELSE s[i - 1]
    BY <1>2, <2>1
  <2>4. (i - 1 <= m <=> i <= m + 1) /\ (i - 1 = m + 1 <=> i = m + 2)
    BY <1>0
  <2>5. CASE i <= m + 1
    <3>1. Old(i) = i
      BY <2>5
    <3>2. m \in 0..Len(s) - 1 /\ Len(s) \in Nat
      BY <1>1, <1>3
    <3>3. i \in 1..Len(s)
      BY <2>5, <3>2
    <3> HIDE DEF Old
    <3> QED BY <2>1, <2>2, <2>3, <2>4, <2>5, <3>1, <3>3
  <2>6. CASE i = m + 2
    <3>1. Old(i) = 1 /\ 1 \in 1..Len(s) /\ ~(i <= m + 1)
      BY <1>1, <1>3, <2>6
    <3> HIDE DEF Old
    <3> QED BY <2>2, <2>3, <2>4, <2>6, <3>1
  <2>7. CASE i > m + 2
    <3>1. Old(i) = i - 1 /\ ~(i <= m + 1) /\ i # m + 2
      BY <1>3, <2>7
    <3> HIDE DEF Old
    <3> QED BY <2>1, <2>2, <2>3, <2>4, <3>1
  <2> QED BY <1>3, <2>5, <2>6, <2>7
<1>8. \A i \in 1..Len(s) : h[s[i]] = g[s[i]] /\ g[s[i]] \in Int /\ freeIndex[s[i]] \in Int
  BY <1>1
<1>9. \A i \in 2..Len(s) : f[s[i]] = freeIndex[s[i]] /\ freeIndex[s[i]] = g[s[i]]
  <2> SUFFICES ASSUME NEW i \in 2..Len(s) PROVE f[s[i]] = freeIndex[s[i]] /\ freeIndex[s[i]] = g[s[i]]
    OBVIOUS
  <2>1. i \in 1..Len(s) /\ 1 \in 1..Len(s) /\ i # 1
    BY <1>1
  <2>2. s[i] # s[1]
    BY <1>1, <2>1 DEF Distinct
  <2> QED BY <1>1, <2>1, <2>2 DEF Sorted
<1>10. ASSUME NEW i \in 2..Len(r) PROVE f[r[i]] = h[r[i]]
  <2>1. r[i] = s[Old(i)] /\ Old(i) \in 1..Len(s)
    BY <1>7
  <2> HIDE DEF Old
  <2>2. CASE Old(i) = 1
    BY <1>8, <2>1, <2>2
  <2>3. CASE Old(i) # 1
    <3>1. Old(i) \in 2..Len(s)
      BY <1>1, <2>1, <2>3
    <3> QED BY <1>8, <1>9, <2>1, <3>1
  <2> QED BY <2>2, <2>3
<1>11. ASSUME NEW i \in 3..Len(s) PROVE g[s[i]] <= g[s[i - 1]]
  <2>1. i \in 2..Len(s) /\ i > 2
    OBVIOUS
  <2>2. Sorted(s, freeIndex, g)
    OBVIOUS
  <2> QED BY <2>1, <2>2 DEF Sorted
<1>12. ASSUME NEW i \in 3..Len(r) PROVE g[s[Old(i)]] <= g[s[Old(i - 1)]]
  <2>1. Len(r) = Len(s) + 1
    BY <1>2, <1>6
  <2>2. CASE i <= m + 1
    <3>1. Old(i) = i /\ Old(i - 1) = i - 1 /\ i \in 3..Len(s)
      BY <1>1, <1>3, <2>2
    <3> QED BY <1>11, <3>1
  <2>3. CASE i = m + 2
    <3>1. Old(i) = 1 /\ Old(i - 1) = m + 1 /\ m + 1 \in 2..m + 1 /\ m + 1 \in 2..Len(s)
          /\ m + 1 \in 1..Len(s) /\ 1 \in 1..Len(s)
      BY <1>1, <1>3, <2>3
    <3> HIDE DEF Old
    <3>2. freeIndex[s[m + 1]] > g[s[1]] /\ freeIndex[s[m + 1]] = g[s[m + 1]]
      BY <1>3, <1>9, <3>1
    <3> QED BY <1>8, <3>1, <3>2
  <2>4. CASE i = m + 3
    <3>1. Old(i) = m + 2 /\ Old(i - 1) = 1 /\ m + 2 <= Len(s) /\ m + 2 \in 2..Len(s)
          /\ m + 2 \in 1..Len(s) /\ 1 \in 1..Len(s)
      BY <1>1, <1>3, <2>1, <2>4
    <3> HIDE DEF Old
    <3>2. ~(freeIndex[s[m + 2]] > g[s[1]]) /\ freeIndex[s[m + 2]] = g[s[m + 2]]
      BY <1>4, <1>9, <3>1
    <3> QED BY <1>8, <3>1, <3>2
  <2>5. CASE i > m + 3
    <3>1. Old(i) = i - 1 /\ Old(i - 1) = i - 1 - 1 /\ i - 1 \in 3..Len(s)
      BY <1>1, <1>3, <2>1, <2>5
    <3> HIDE DEF Old
    <3> QED BY <1>11, <3>1
  <2>6. i <= m + 1 \/ i = m + 2 \/ i = m + 3 \/ i > m + 3
    BY <1>3
  <2> HIDE DEF Old
  <2> QED BY <2>2, <2>3, <2>4, <2>5, <2>6
<1>13. ASSUME NEW i \in 2..Len(r), i > 2 PROVE h[r[i]] <= h[r[i - 1]]
  <2>1. i \in 3..Len(r) /\ i - 1 \in 2..Len(r)
    BY <1>2, <1>6, <1>13
  <2> HIDE DEF Old
  <2>2. r[i] = s[Old(i)] /\ Old(i) \in 1..Len(s) /\ r[i - 1] = s[Old(i - 1)] /\ Old(i - 1) \in 1..Len(s)
    BY <1>7, <2>1
  <2>3. \A j \in 1..Len(s) : h[s[j]] = g[s[j]]
    BY <1>8
  <2>4. h[s[Old(i)]] = g[s[Old(i)]] /\ h[s[Old(i - 1)]] = g[s[Old(i - 1)]]
    BY <2>2, <2>3
  <2>5. h[r[i]] = g[s[Old(i)]] /\ h[r[i - 1]] = g[s[Old(i - 1)]]
    BY <2>2, <2>4
  <2>6. g[s[Old(i)]] <= g[s[Old(i - 1)]]
    BY <1>12, <2>1
  <2> QED BY <2>5, <2>6
<1>14. Sorted(r, f, h)
  BY <1>10, <1>13 DEF Sorted
<1> QED BY <1>5, <1>14 DEF r, d

\* What happens to the first node does not matter.
LEMMA SortedSame ==
    ASSUME NEW s, NEW T, Lists(s, Nodes, T), NEW f, NEW g, Sorted(s, f, g), NEW i, NEW h,
           \A x \in T : x = s[1] \/ (i[x] = f[x] /\ h[x] = g[x])
    PROVE  Sorted(s, i, h)
<1>1. s \in Seq(Nodes) /\ Len(s) \in Nat /\ (\A k \in 1..Len(s) : s[k] \in T) /\ Distinct(s)
  BY ListsIs DEF Lists
<1>2. ASSUME NEW k \in 2..Len(s) PROVE i[s[k]] = f[s[k]] /\ h[s[k]] = g[s[k]]
  <2>1. k \in 1..Len(s) /\ 1 \in 1..Len(s) /\ k # 1
    BY <1>1
  <2>2. s[k] # s[1] /\ s[k] \in T
    BY <1>1, <2>1 DEF Distinct
  <2> QED BY <2>2
<1>3. ASSUME NEW k \in 2..Len(s), k > 2 PROVE h[s[k]] <= h[s[k - 1]]
  <2>1. k - 1 \in 2..Len(s)
    BY <1>1, <1>3
  <2>2. g[s[k]] <= g[s[k - 1]]
    BY <1>3 DEF Sorted
  <2> QED BY <1>2, <2>1, <2>2
<1>4. ASSUME NEW k \in 2..Len(s) PROVE i[s[k]] = h[s[k]]
  BY <1>2 DEF Sorted
<1> QED BY <1>3, <1>4 DEF Sorted

LEMMA SortedWithout ==
    ASSUME NEW s, NEW T, Lists(s, Nodes, T), NEW f, NEW g, Sorted(s, f, g), Len(s) > 1
    PROVE  /\ Sorted(RemoveAt(s, 2), f, g) /\ Lists(RemoveAt(s, 2), Nodes, Minus(T, s[2]))
           /\ s[2] \in T /\ s[2] # s[1]
           /\ RemoveAt(s, 2) # <<>> /\ RemoveAt(s, 2)[1] = s[1] /\ Head(RemoveAt(s, 2)) = s[1]
<1> DEFINE r == RemoveAt(s, 2)
<1>1. s \in Seq(Nodes) /\ Len(s) \in Nat /\ Distinct(s) /\ 1 \in 1..Len(s) /\ 2 \in 1..Len(s)
  BY ListsIs DEF Lists
<1>2. /\ r \in Seq(Nodes) /\ Len(r) = Len(s) - 1
      /\ \A i \in 1..Len(s) - 1 : r[i] = IF i < 2 THEN s[i] ELSE s[i + 1]
  BY <1>1, RemoveAtProperties
<1>3. Lists(r, Nodes, Minus(T, s[2])) /\ s[2] \in T
  BY <1>1, ListsRemove
<1> HIDE DEF r
<1>4. r[1] = s[1] /\ \A i \in 2..Len(r) : r[i] = s[i + 1] /\ i + 1 \in 3..Len(s)
  BY <1>1, <1>2
<1>5. Sorted(r, f, g)
  <2>1. ASSUME NEW i \in 2..Len(r) PROVE f[r[i]] = g[r[i]]
    <3>1. r[i] = s[i + 1] /\ i + 1 \in 2..Len(s)
      BY <1>4
    <3> QED BY <3>1 DEF Sorted
  <2>2. ASSUME NEW i \in 2..Len(r), i > 2 PROVE g[r[i]] <= g[r[i - 1]]
    <3>1. i - 1 \in 2..Len(r) /\ i - 1 + 1 = i /\ i + 1 - 1 = i
      BY <1>1, <1>2, <2>2
    <3>4. r[i - 1] = s[i - 1 + 1]
      BY <1>4, <3>1
    <3>2. r[i] = s[i + 1] /\ r[i - 1] = s[i] /\ i + 1 \in 2..Len(s) /\ i + 1 > 2
      BY <1>4, <3>1, <3>4
    <3>3. g[s[i + 1]] <= g[s[i + 1 - 1]]
      BY <3>2 DEF Sorted
    <3> QED BY <3>1, <3>2, <3>3
  <2> QED BY <2>1, <2>2 DEF Sorted
<1>6. r # <<>> /\ Head(r) = r[1]
  <2>1. Len(r) # 0
    BY <1>1, <1>2
  <2>2. r # <<>>
    BY <2>1
  <2> QED BY <1>2, <2>2, TailProperties
<1>7. s[2] # s[1]
  BY <1>1 DEF Distinct
<1> QED BY <1>3, <1>4, <1>5, <1>6, <1>7 DEF r

LEMMA SortedShort ==
    ASSUME NEW e, NEW f, NEW g
    PROVE  Sorted(<<e>>, f, g) /\ Sorted(<<>>, f, g)
BY DEF Sorted

-------------------------------------------------------------------------------
\* The invariant of the nodes.

In(p) == ToSet(ring[p])
PagesLeft == [n \in Nodes |-> FreePages(n)]

\* What alloc relies on holds until the allocator is deleted.
AllocatorSound == AllocatorTyped /\ (~deleted => AllocatorExact)

\* The rings are apart, and nothing in them is free.
RingsApart ==
    /\ DOMAIN ring = Pools /\ ring = [p \in Pools |-> ring[p]]
    /\ \A p \in Pools : /\ Lists(ring[p], Nodes, In(p))
                        /\ \A n \in In(p) : n \in heap /\ n \notin Kept
    /\ \A p, q \in Pools : \A n \in Nodes : n \in In(p) /\ n \in In(q) => p = q

\* So are the nodes for new children.
HandsApart ==
    /\ making \in [Threads -> {<<>>} \cup Pools \X Nodes]
    /\ \A t \in Threads : making[t] # <<>> =>
        /\ making[t][2] \in heap /\ making[t][2] \notin Kept
        /\ \A p \in Pools : making[t][2] \notin In(p)
    /\ \A t, u \in Threads : making[t] # <<>> /\ making[u] # <<>> /\ making[t][2] = making[u][2] => t = u

NoneLost ==
    \A n \in heap : \/ n \in Kept \/ \E p \in Pools : n \in In(p)
                    \/ \E t \in Threads : making[t] # <<>> /\ making[t][2] = n

\* What is taken of a node is not beyond its end, and only rings have anything taken.
RoomSound ==
    /\ used \in [Nodes -> Nat] /\ freeIndex \in [Nodes -> Int]
    /\ \A n \in heap : used[n] <= Capacity(n)
    /\ \A n \in Nodes : (\A p \in Pools : n \notin In(p)) => used[n] = Header

OrderSound == \A p \in Pools : Sorted(ring[p], freeIndex, PagesLeft)

SelfSound ==
    /\ self \in [Pools -> Nodes \cup {NULL}]
    /\ \A p \in Pools : Exists(p) => self[p] \in In(p)

NodesSound ==
    /\ AllocatorSound /\ RingsApart /\ HandsApart /\ NoneLost /\ RoomSound /\ OrderSound
    /\ SelfSound

LEMMA PagesLeftTyped ==
    ASSUME AllocatorTyped, used \in [Nodes -> Nat]
    PROVE  PagesLeft \in [Nodes -> Int]
<1> SUFFICES ASSUME NEW n \in Nodes PROVE FreePages(n) \in Int
  BY DEF PagesLeft
<1>1. Capacity(n) \in Int /\ used[n] \in Int /\ Boundary \in Nat \ {0}
  BY AllocatorAssumption DEF AllocatorTyped, Numbered, Capacity, Pages
<1> QED BY <1>1 DEF FreePages, Room

LEMMA PagesLeftSame ==
    \A x \in Nodes : used'[x] = used[x] /\ index'[x] = index[x] => PagesLeft'[x] = PagesLeft[x]
BY DEF PagesLeft, FreePages, Room, Capacity, Pages

LEMMA RingIs ==
    ASSUME RingsApart, NEW p \in Pools
    PROVE  /\ Lists(ring[p], Nodes, In(p)) /\ ring[p] \in Seq(Nodes) /\ In(p) \subseteq Nodes
           /\ Exists(p) <=> In(p) # {}
BY ListsIs DEF RingsApart, Exists

\* Node n joins the ring of p, or is in it.
Joins(p, n) ==
    /\ DOMAIN ring' = Pools /\ ring' = [q \in Pools |-> ring'[q]]
    /\ Lists(ring'[p], Nodes, Plus(In(p), n))
    /\ \A q \in Pools : q # p => ring'[q] = ring[q]

LEMMA JoinsIn ==
    ASSUME NEW p \in Pools, NEW n, Joins(p, n)
    PROVE  In(p)' = Plus(In(p), n) /\ \A q \in Pools : q # p => In(q)' = In(q)
BY DEF Joins, In, Lists

\* ... when it was free or new.
LEMMA JoinsApart ==
    ASSUME NodesSound, NEW p \in Pools, NEW n \in Nodes, Joins(p, n), making' = making,
           NEW size, Obtained(n, size)
    PROVE  RingsApart' /\ HandsApart' /\ NoneLost'
<1>1. RingsApart /\ HandsApart /\ NoneLost
  BY DEF NodesSound
<1>2. In(p)' = Plus(In(p), n) /\ \A q \in Pools : q # p => In(q)' = In(q)
  BY JoinsIn
<1>3. \A q \in Pools : n \notin In(q)
  BY <1>1 DEF RingsApart, Obtained
<1>4. \A t \in Threads : making[t] # <<>> => making[t][2] # n
  BY <1>1 DEF HandsApart, Obtained
<1>5. /\ \A m \in heap : m \in heap'
      /\ \A m \in heap' : m \in heap \/ m = n
      /\ \A m : m \in Kept' <=> m \in Kept /\ m # n
      /\ n \in heap'
  BY DEF Obtained, Plus, Minus
<1>6. \A q \in Pools : \A m : m \in In(q)' <=> m \in In(q) \/ (q = p /\ m = n)
  BY <1>2 DEF Plus
<1>7. \A q \in Pools : Lists(ring'[q], Nodes, In(q)')
  BY <1>1, <1>2 DEF Joins, RingsApart
<1>8. RingsApart'
  <2>1. \A q \in Pools : \A m \in In(q)' : m \in heap' /\ m \notin Kept'
    BY <1>1, <1>5, <1>6 DEF RingsApart
  <2>2. \A q, r \in Pools : \A m \in Nodes : m \in In(q)' /\ m \in In(r)' => q = r
    BY <1>1, <1>3, <1>6 DEF RingsApart
  <2>3. DOMAIN ring' = Pools /\ ring' = [q \in Pools |-> ring'[q]]
    BY DEF Joins
  <2> QED BY <1>7, <2>1, <2>2, <2>3 DEF RingsApart
<1>9. HandsApart'
  <2>1. ASSUME NEW t \in Threads, making[t] # <<>>
        PROVE  making[t][2] \in heap' /\ making[t][2] \notin Kept'
               /\ \A q \in Pools : making[t][2] \notin In(q)'
    BY <1>1, <1>4, <1>5, <1>6, <2>1 DEF HandsApart
  <2> QED BY <1>1, <2>1 DEF HandsApart
<1>10. NoneLost'
  <2>1. ASSUME NEW m \in heap'
        PROVE  \/ m \in Kept' \/ \E q \in Pools : m \in In(q)'
               \/ \E t \in Threads : making[t] # <<>> /\ making[t][2] = m
    BY <1>1, <1>5, <1>6, <2>1 DEF NoneLost
  <2> QED BY <2>1 DEF NoneLost
<1> QED BY <1>8, <1>9, <1>10

\* ... when it was in the ring already.
LEMMA StaysApart ==
    ASSUME NodesSound, NEW p \in Pools, NEW n \in Nodes, n \in In(p), Joins(p, n), making' = making,
           heap' = heap, buf' = buf
    PROVE  RingsApart' /\ HandsApart' /\ NoneLost'
<1>1. RingsApart /\ HandsApart /\ NoneLost
  BY DEF NodesSound
<1>2. In(p)' = Plus(In(p), n) /\ \A q \in Pools : q # p => In(q)' = In(q)
  BY JoinsIn
<1>3. Kept' = Kept
  BY KeptIs
<1>4. \A q \in Pools : In(q)' = In(q)
  BY <1>2 DEF Plus
<1>5. \A q \in Pools : Lists(ring'[q], Nodes, In(q)')
  BY <1>1, <1>2 DEF Joins, RingsApart
<1>6. DOMAIN ring' = Pools /\ ring' = [q \in Pools |-> ring'[q]]
  BY DEF Joins
<1>7. RingsApart'
  BY <1>1, <1>3, <1>4, <1>5, <1>6 DEF RingsApart
<1>8. HandsApart'
  <2>1. ASSUME NEW t \in Threads, making[t] # <<>>
        PROVE  making[t][2] \in heap' /\ making[t][2] \notin Kept'
               /\ \A q \in Pools : making[t][2] \notin In(q)'
    BY <1>1, <1>3, <1>4, <2>1 DEF HandsApart
  <2> QED BY <1>1, <2>1 DEF HandsApart
<1>9. NoneLost'
  BY <1>1, <1>3, <1>4 DEF NoneLost
<1> QED BY <1>7, <1>8, <1>9

-------------------------------------------------------------------------------
\* palloc.

\* size units more of n are taken.
Taken(n, size) ==
    /\ used' \in [Nodes -> Nat] /\ used'[n] = used[n] + size
    /\ \A m \in Nodes : m # n => used'[m] = used[m]

LEMMA TakenIs ==
    ASSUME used \in [Nodes -> Nat], NEW n \in Nodes, NEW size \in Nat,
           used' = [used EXCEPT ![n] = used[n] + size]
    PROVE  Taken(n, size)
BY DEF Taken

LEMMA RoomTaken ==
    ASSUME NodesSound, NEW p \in Pools, NEW n \in Nodes, NEW size \in Nat, Joins(p, n), Taken(n, size),
           freeIndex' \in [Nodes -> Int], used[n] + size <= Capacity(n)',
           \A m \in heap : index'[m] = index[m], heap' \subseteq Plus(heap, n)
    PROVE  RoomSound'
<1>1. RoomSound
  BY DEF NodesSound
<1>2. In(p)' = Plus(In(p), n) /\ \A q \in Pools : q # p => In(q)' = In(q)
  BY JoinsIn
<1>3. \A q \in Pools : \A m : m \in In(q)' <=> m \in In(q) \/ (q = p /\ m = n)
  BY <1>2 DEF Plus
<1>4. ASSUME NEW m \in heap' PROVE used'[m] <= Capacity(m)'
  <2>1. CASE m = n
    BY <2>1 DEF Taken
  <2>2. CASE m # n
    <3>1. m \in heap /\ m \in Nodes
      BY <2>2 DEF Plus, NodesSound, AllocatorSound, AllocatorTyped
    <3>2. used'[m] = used[m] /\ index'[m] = index[m] /\ used[m] <= Capacity(m)
      BY <1>1, <2>2, <3>1 DEF Taken, RoomSound
    <3> QED BY <3>2 DEF Capacity, Pages
  <2> QED BY <2>1, <2>2
<1>5. ASSUME NEW m \in Nodes, \A q \in Pools : m \notin In(q)' PROVE used'[m] = Header
  <2>1. m # n /\ \A q \in Pools : m \notin In(q)
    BY <1>3, <1>5
  <2> QED BY <1>1, <2>1 DEF Taken, RoomSound
<1> QED BY <1>4, <1>5 DEF RoomSound, Taken

\* The other rings.
LEMMA OrderElsewhere ==
    ASSUME NodesSound, NEW p \in Pools, NEW n \in Nodes, NEW size, Joins(p, n), Taken(n, size),
           \A q \in Pools : q # p => n \notin In(q),
           \A m \in heap : index'[m] = index[m],
           \A m \in Nodes : m # n /\ m \notin In(p) => freeIndex'[m] = freeIndex[m],
           NEW q \in Pools, q # p
    PROVE  Sorted(ring'[q], freeIndex', PagesLeft')
<1>1. Lists(ring[q], Nodes, In(q)) /\ In(q) \subseteq Nodes /\ Sorted(ring[q], freeIndex, PagesLeft)
  BY RingIs DEF NodesSound, OrderSound
<1>2. ASSUME NEW x \in In(q) PROVE freeIndex'[x] = freeIndex[x] /\ PagesLeft'[x] = PagesLeft[x]
  <2>1. x \in Nodes /\ x \in heap /\ x # n /\ x \notin In(p)
    BY <1>1 DEF NodesSound, RingsApart
  <2> QED BY <2>1, PagesLeftSame DEF Taken
<1>3. Sorted(ring[q], freeIndex', PagesLeft')
  BY <1>1, <1>2, SortedSame
<1> QED BY <1>3 DEF Joins

\* What palloc does for the pool and for those who use it.
Grown(p, n, size) ==
    /\ \A q \in Pools : q # p => In(q)' = In(q) /\ n \notin In(q)
    /\ In(p)' = Plus(In(p), n)
    /\ \A q \in Pools : (Exists(q)' <=> Exists(q))
    /\ Taken(n, size) /\ Place(p, n) = <<n, used[n]>>
    /\ DOMAIN ring' = Pools

LEMMA GrownIs ==
    ASSUME NodesSound, NEW p \in Pools, Exists(p), NEW n \in Nodes, NEW size, Joins(p, n), Taken(n, size),
           \A q \in Pools : q # p => n \notin In(q), n \notin In(p) => used[n] = Header
    PROVE  Grown(p, n, size)
<1>1. In(p)' = Plus(In(p), n) /\ \A q \in Pools : q # p => In(q)' = In(q)
  BY JoinsIn
<1>2. Exists(p)'
  <2>1. In(p)' # {}
    BY <1>1 DEF Plus
  <2> QED BY <1>1, <2>1, ListsIs DEF Joins, Exists
<1>3. \A q \in Pools : q # p => (Exists(q)' <=> Exists(q))
  BY DEF Joins, Exists
<1>4. Place(p, n) = <<n, used[n]>>
  BY DEF Place, In
<1> QED BY <1>1, <1>2, <1>3, <1>4 DEF Grown, Joins

\* Node n becomes the active one, in front of the nodes in T.
LEMMA ActivateSound ==
    ASSUME NodesSound, NEW p \in Pools, NEW n \in Nodes, NEW size \in Nat,
           NEW rest, NEW T, Lists(rest, Nodes, T), rest # <<>>, n \notin T, Plus(T, n) = Plus(In(p), n),
           T \subseteq heap, Sorted(rest, freeIndex, PagesLeft),
           Activate(p, n, used[n], size, rest),
           \A m \in heap : index'[m] = index[m]
    PROVE  /\ Joins(p, n) /\ Taken(n, size)
           /\ freeIndex' \in [Nodes -> Int]
           /\ \A m \in Nodes : m # n /\ m \notin T => freeIndex'[m] = freeIndex[m]
           /\ Sorted(ring'[p], freeIndex', PagesLeft')
<1> DEFINE e == Head(rest)
           d == <<n>> \o Demoted(rest, FreePages(e))
<1>1. /\ used \in [Nodes -> Nat] /\ freeIndex \in [Nodes -> Int] /\ AllocatorTyped
      /\ DOMAIN ring = Pools /\ ring = [q \in Pools |-> ring[q]]
  BY DEF NodesSound, RoomSound, AllocatorSound, RingsApart
<1>2. Taken(n, size)
  BY <1>1, TakenIs DEF Activate
<1>3. e = rest[1] /\ e \in T /\ T \subseteq Nodes
  BY ListsTail, ListsIs
<1>4. PagesLeft \in [Nodes -> Int] /\ PagesLeft[e] = FreePages(e)
  BY <1>1, <1>3, PagesLeftTyped DEF PagesLeft
<1> HIDE DEF e
<1>5. freeIndex' = [freeIndex EXCEPT ![n] = 0, ![e] = FreePages(e)]
  BY DEF Activate, e
<1>6. /\ freeIndex' \in [Nodes -> Int] /\ freeIndex'[e] = PagesLeft[e]
      /\ \A m \in Nodes : m # n /\ m # e => freeIndex'[m] = freeIndex[m]
  <2>1. FreePages(e) \in Int /\ e \in Nodes
    BY <1>3, <1>4
  <2> QED BY <1>1, <1>4, <1>5, <2>1
<1>7. \A x \in T : PagesLeft'[x] = PagesLeft[x]
  <2> SUFFICES ASSUME NEW x \in T PROVE PagesLeft'[x] = PagesLeft[x]
    OBVIOUS
  <2>1. x \in Nodes /\ x \in heap /\ x # n
    BY <1>3
  <2> QED BY <1>2, <2>1, PagesLeftSame DEF Taken
<1>8. \A x \in T : x # rest[1] => freeIndex'[x] = freeIndex[x]
  BY <1>3, <1>6
<1>9. freeIndex'[rest[1]] = PagesLeft[rest[1]] /\ PagesLeft[rest[1]] = FreePages(e)
  BY <1>3, <1>4, <1>6
<1>10. /\ Sorted(<<n>> \o Demoted(rest, PagesLeft[rest[1]]), freeIndex', PagesLeft')
       /\ Lists(<<n>> \o Demoted(rest, PagesLeft[rest[1]]), Nodes, Plus(T, n))
  <2>1. PICK f : f = freeIndex'
    OBVIOUS
  <2>2. PICK h : h = PagesLeft'
    OBVIOUS
  <2>3. PICK g : g = PagesLeft
    OBVIOUS
  <2>4. /\ g \in [Nodes -> Int] /\ Sorted(rest, freeIndex, g) /\ \A x \in T : h[x] = g[x]
        /\ f[rest[1]] = g[rest[1]] /\ \A x \in T : x # rest[1] => f[x] = freeIndex[x]
    <3>1. g \in [Nodes -> Int] /\ Sorted(rest, freeIndex, g)
      BY <1>4, <2>3
    <3>2. \A x \in T : h[x] = g[x]
      BY <1>7, <2>2, <2>3
    <3>3. f[rest[1]] = g[rest[1]]
      BY <1>9, <2>1, <2>3
    <3>4. \A x \in T : x # rest[1] => f[x] = freeIndex[x]
      BY <1>8, <2>1
    <3> QED BY <3>1, <3>2, <3>3, <3>4
  <2>5. /\ Sorted(<<n>> \o Demoted(rest, g[rest[1]]), f, h)
        /\ Lists(<<n>> \o Demoted(rest, g[rest[1]]), Nodes, Plus(T, n))
    <3>1. freeIndex \in [Nodes -> Int]
      BY <1>1
    <3>2. Activation(rest, T, n, g, f, h)
      BY <2>4, <3>1 DEF Activation
    <3> QED BY <3>2, ActivatedSorted
  <2> QED BY <2>1, <2>2, <2>3, <2>5
<1>11. Sorted(d, freeIndex', PagesLeft') /\ Lists(d, Nodes, Plus(In(p), n))
  BY <1>9, <1>10
<1>12. ring' = [ring EXCEPT ![p] = d]
  BY DEF Activate, e
<1> HIDE DEF d
<1>13. ring'[p] = d /\ (\A q \in Pools : q # p => ring'[q] = ring[q]) /\ DOMAIN ring' = Pools
       /\ ring' = [q \in Pools |-> ring'[q]]
  BY <1>1, <1>12
<1>14. Joins(p, n)
  BY <1>11, <1>13 DEF Joins
<1> QED BY <1>2, <1>3, <1>6, <1>11, <1>13, <1>14

LEMMA AllocatorSame ==
    ASSUME AllocatorSound, UNCHANGED <<allocatorVars, deleted>>
    PROVE  AllocatorSound' /\ Kept' = Kept
<1>1. UNCHANGED <<heap, index, buf, last, current, max, allocated, deleted>>
  BY DEF allocatorVars
<1>2. AllocatorTyped'
  BY <1>1 DEF AllocatorSound, AllocatorTyped
<1>3. ~deleted => AllocatorExact'
  BY <1>1 DEF AllocatorSound, AllocatorExact
<1>4. Kept' = Kept
  BY <1>1, KeptIs
<1> QED BY <1>1, <1>2, <1>3, <1>4 DEF AllocatorSound

LEMMA SelfGrown ==
    ASSUME SelfSound, NEW p \in Pools, NEW n, NEW size, Grown(p, n, size), self' = self
    PROVE  SelfSound'
<1>1. ASSUME NEW q \in Pools, Exists(q)' PROVE self'[q] \in In(q)'
  <2>1. Exists(q) /\ self[q] \in In(q)
    BY <1>1 DEF Grown, SelfSound
  <2> QED BY <2>1 DEF Grown, Plus
<1> QED BY <1>1 DEF SelfSound

LEMMA PallocActive ==
    ASSUME NodesSound, NEW p \in Pools, Exists(p), NEW size \in Nat, NEW n \in Nodes,
           n = Head(ring[p]), Fits(n, size), used' = [used EXCEPT ![n] = @ + size],
           UNCHANGED <<allocatorVars, freeIndex, ring, self, making, deleted>>
    PROVE  NodesSound' /\ Grown(p, n, size)
<1>1. RingsApart /\ RoomSound /\ OrderSound /\ SelfSound /\ AllocatorSound /\ AllocatorTyped
  BY DEF NodesSound, AllocatorSound
<1>2. Lists(ring[p], Nodes, In(p)) /\ n \in In(p) /\ n = ring[p][1]
  BY <1>1, RingIs, ListsTail DEF Exists
<1>3. Joins(p, n)
  <2>1. Plus(In(p), n) = In(p)
    BY <1>2 DEF Plus
  <2> QED BY <1>1, <1>2, <2>1 DEF Joins, RingsApart
<1>4. Taken(n, size)
  BY <1>1, TakenIs DEF RoomSound
<1>5. AllocatorSound' /\ Kept' = Kept
  BY <1>1, AllocatorSame
<1>6. \A q \in Pools : q # p => n \notin In(q)
  BY <1>1, <1>2 DEF RingsApart
<1>7. Grown(p, n, size)
  BY <1>2, <1>3, <1>4, <1>6, GrownIs
<1>8. heap' = heap /\ buf' = buf /\ index' = index
  BY DEF allocatorVars
<1>9. RingsApart' /\ HandsApart' /\ NoneLost'
  BY <1>2, <1>3, <1>8, StaysApart
<1>10. RoomSound'
  <2>1. used[n] + size <= Capacity(n)'
    <3>1. used[n] \in Nat /\ Capacity(n) \in Int /\ Capacity(n)' = Capacity(n)
      BY <1>1, <1>8, AllocatorAssumption DEF RoomSound, Capacity, Pages, AllocatorTyped, Numbered
    <3> QED BY <3>1 DEF Fits, Room
  <2> QED BY <1>1, <1>3, <1>4, <1>8, <2>1, RoomTaken DEF RoomSound, Plus
<1>11. OrderSound'
  <2>1. \A q \in Pools : q # p => Sorted(ring'[q], freeIndex', PagesLeft')
    BY <1>3, <1>4, <1>6, <1>8, OrderElsewhere
  <2>2. Sorted(ring'[p], freeIndex', PagesLeft')
    <3>1. Sorted(ring[p], freeIndex, PagesLeft) /\ In(p) \subseteq Nodes
      BY <1>1, RingIs DEF OrderSound
    <3>2. \A x \in In(p) : x = ring[p][1] \/ (freeIndex'[x] = freeIndex[x] /\ PagesLeft'[x] = PagesLeft[x])
      BY <1>2, <1>4, <1>8, <3>1, PagesLeftSame DEF Taken
    <3> QED BY <1>2, <3>1, <3>2, SortedSame
  <2> QED BY <2>1, <2>2 DEF OrderSound
<1>12. SelfSound'
  BY <1>1, <1>7, SelfGrown
<1> QED BY <1>5, <1>7, <1>9, <1>10, <1>11, <1>12 DEF NodesSound

LEMMA PallocNext ==
    ASSUME NodesSound, NEW p \in Pools, Exists(p), NEW size \in Nat, NEW n \in Nodes,
           n = ring[p][2], Len(ring[p]) > 1, Fits(n, size),
           Activate(p, n, used[n], size, RemoveAt(ring[p], 2)),
           UNCHANGED <<allocatorVars, self, making, deleted>>
    PROVE  NodesSound' /\ Grown(p, n, size)
<1> DEFINE rest == RemoveAt(ring[p], 2)
           T == Minus(In(p), n)
<1>1. RingsApart /\ RoomSound /\ OrderSound /\ SelfSound /\ AllocatorSound /\ AllocatorTyped
  BY DEF NodesSound, AllocatorSound
<1>2. Lists(ring[p], Nodes, In(p)) /\ Sorted(ring[p], freeIndex, PagesLeft)
  BY <1>1, RingIs DEF OrderSound
<1>3. Sorted(rest, freeIndex, PagesLeft) /\ Lists(rest, Nodes, T) /\ n \in In(p) /\ rest # <<>>
  BY <1>2, SortedWithout
<1>4. heap' = heap /\ buf' = buf /\ index' = index
  BY DEF allocatorVars
<1>5. n \notin T /\ Plus(T, n) = Plus(In(p), n) /\ T \subseteq In(p)
  BY <1>3 DEF Minus, Plus
<1>6. T \subseteq heap
  BY <1>1, <1>5 DEF RingsApart
<1>7. Activate(p, n, used[n], size, rest)
  OBVIOUS
<1> HIDE DEF rest, T
<1>8. /\ Joins(p, n) /\ Taken(n, size)
      /\ freeIndex' \in [Nodes -> Int]
      /\ \A m \in Nodes : m # n /\ m \notin T => freeIndex'[m] = freeIndex[m]
      /\ Sorted(ring'[p], freeIndex', PagesLeft')
  BY <1>3, <1>4, <1>5, <1>6, <1>7, ActivateSound
<1>9. AllocatorSound' /\ Kept' = Kept
  BY <1>1, AllocatorSame
<1>10. \A q \in Pools : q # p => n \notin In(q)
  BY <1>1, <1>3 DEF RingsApart
<1>11. Grown(p, n, size)
  BY <1>3, <1>8, <1>10, GrownIs
<1>12. RingsApart' /\ HandsApart' /\ NoneLost'
  BY <1>3, <1>4, <1>8, StaysApart
<1>13. RoomSound'
  <2>1. used[n] + size <= Capacity(n)'
    <3>0. used[n] \in Nat /\ index[n] \in Nat /\ Boundary \in Nat
      BY <1>1, AllocatorAssumption DEF RoomSound, AllocatorTyped, Numbered
    <3>1. used[n] \in Nat /\ Capacity(n) \in Int /\ Capacity(n)' = Capacity(n)
      BY <1>4, <3>0 DEF Capacity, Pages
    <3> QED BY <3>1 DEF Fits, Room
  <2> QED BY <1>4, <1>8, <2>1, RoomTaken DEF Plus
<1>14. OrderSound'
  <2>1. \A m \in Nodes : m # n /\ m \notin In(p) => freeIndex'[m] = freeIndex[m]
    BY <1>5, <1>8
  <2>2. \A q \in Pools : q # p => Sorted(ring'[q], freeIndex', PagesLeft')
    BY <1>4, <1>8, <1>10, <2>1, OrderElsewhere
  <2> QED BY <1>8, <2>2 DEF OrderSound
<1>15. SelfSound'
  BY <1>1, <1>11, SelfGrown
<1> QED BY <1>9, <1>11, <1>12, <1>13, <1>14, <1>15 DEF NodesSound

\* A node that alloc may return lies in no ring.
LEMMA ObtainedFresh ==
    ASSUME NodesSound, NEW n \in Nodes, NEW size, Obtained(n, size)
    PROVE  used[n] = Header /\ \A q \in Pools : n \notin In(q)
<1>1. \A q \in Pools : n \notin In(q)
  BY DEF NodesSound, RingsApart, Obtained
<1> QED BY <1>1 DEF NodesSound, RoomSound

LEMMA PallocNew ==
    ASSUME NodesSound, ~deleted, NEW p \in Pools, Exists(p), NEW size \in Nat, NEW n \in Nodes,
           Alloc(size, n), Activate(p, n, Header, size, ring[p]),
           UNCHANGED <<self, making, deleted>>
    PROVE  NodesSound' /\ Grown(p, n, size)
<1>1. RingsApart /\ RoomSound /\ OrderSound /\ SelfSound /\ AllocatorTyped /\ AllocatorExact
  BY DEF NodesSound, AllocatorSound
<1>2. AllocatorTyped' /\ AllocatorExact' /\ Obtained(n, size)
  BY <1>1, AllocSound
<1>3. used[n] = Header /\ \A q \in Pools : n \notin In(q)
  BY <1>2, ObtainedFresh
<1>4. Lists(ring[p], Nodes, In(p)) /\ Sorted(ring[p], freeIndex, PagesLeft) /\ ring[p] # <<>>
      /\ In(p) \subseteq heap
  BY <1>1, RingIs DEF OrderSound, Exists, RingsApart
<1>5. (\A m \in heap : index'[m] = index[m]) /\ heap' = Plus(heap, n)
  BY <1>2 DEF Obtained
<1>6. Activate(p, n, used[n], size, ring[p]) /\ n \notin In(p)
  BY <1>3
<1>7. /\ Joins(p, n) /\ Taken(n, size)
      /\ freeIndex' \in [Nodes -> Int]
      /\ \A m \in Nodes : m # n /\ m \notin In(p) => freeIndex'[m] = freeIndex[m]
      /\ Sorted(ring'[p], freeIndex', PagesLeft')
  BY <1>4, <1>5, <1>6, ActivateSound
<1>8. Grown(p, n, size)
  BY <1>3, <1>7, GrownIs
<1>9. RingsApart' /\ HandsApart' /\ NoneLost'
  BY <1>2, <1>7, JoinsApart
<1>10. RoomSound'
  <2>1. used[n] + size <= Capacity(n)'
    BY <1>2, <1>3 DEF Obtained
  <2> QED BY <1>5, <1>7, <2>1, RoomTaken
<1>11. OrderSound'
  <2>1. \A q \in Pools : q # p => Sorted(ring'[q], freeIndex', PagesLeft')
    BY <1>3, <1>5, <1>7, OrderElsewhere
  <2> QED BY <1>7, <2>1 DEF OrderSound
<1>12. SelfSound'
  BY <1>1, <1>8, SelfGrown
<1>13. AllocatorSound'
  BY <1>2 DEF AllocatorSound
<1> QED BY <1>8, <1>9, <1>10, <1>11, <1>12, <1>13 DEF NodesSound

LEMMA PallocSound ==
    ASSUME NodesSound, ~deleted, NEW p \in Pools, Exists(p), NEW size \in Nat, NEW n \in Nodes,
           Palloc(p, size, n), UNCHANGED <<self, making, deleted>>
    PROVE  NodesSound' /\ Grown(p, n, size)
<1>1. CASE /\ Fits(Head(ring[p]), size) /\ n = Head(ring[p])
           /\ used' = [used EXCEPT ![n] = @ + size]
           /\ UNCHANGED <<allocatorVars, freeIndex, ring>>
  BY <1>1, PallocActive
<1>2. CASE /\ Len(ring[p]) > 1 /\ Fits(ring[p][2], size) /\ n = ring[p][2]
           /\ Activate(p, n, used[n], size, RemoveAt(ring[p], 2))
           /\ UNCHANGED allocatorVars
  BY <1>2, PallocNext
<1>3. CASE Alloc(size, n) /\ Activate(p, n, Header, size, ring[p])
  BY <1>3, PallocNew
<1> QED BY <1>1, <1>2, <1>3 DEF Palloc

-------------------------------------------------------------------------------
\* The other steps.

LEMMA NodesFrame ==
    ASSUME NodesSound, UNCHANGED <<allocatorVars, nodeVars, self, making, deleted>>
    PROVE  NodesSound' /\ \A q \in Pools : In(q)' = In(q) /\ (Exists(q)' <=> Exists(q))
<1>1. UNCHANGED <<heap, index, buf, used, freeIndex, ring, self, making>>
  BY DEF allocatorVars, nodeVars
<1>2. AllocatorSound' /\ Kept' = Kept
  BY AllocatorSame DEF NodesSound
<1>3. \A q \in Pools : In(q)' = In(q) /\ (Exists(q)' <=> Exists(q))
  BY <1>1 DEF In, Exists
<1>4. \A n \in Nodes : Capacity(n)' = Capacity(n)
  BY <1>1 DEF Capacity, Pages
<1>5. PagesLeft' = PagesLeft
  BY <1>1 DEF PagesLeft, FreePages, Room, Capacity, Pages
<1>6. RingsApart'
  BY <1>1, <1>2, <1>3 DEF NodesSound, RingsApart
<1>7. HandsApart'
  <2>1. HandsApart
    BY DEF NodesSound
  <2>2. ASSUME NEW t \in Threads, making[t] # <<>>
        PROVE  making[t][2] \in heap' /\ making[t][2] \notin Kept'
               /\ \A q \in Pools : making[t][2] \notin In(q)'
    BY <1>1, <1>2, <1>3, <2>1, <2>2 DEF HandsApart
  <2> QED BY <1>1, <2>1, <2>2 DEF HandsApart
<1>8. NoneLost'
  BY <1>1, <1>2, <1>3 DEF NodesSound, NoneLost
<1>9. RoomSound'
  <2>1. RoomSound /\ heap \subseteq Nodes
    BY DEF NodesSound, AllocatorSound, AllocatorTyped
  <2> QED BY <1>1, <1>3, <1>4, <2>1 DEF RoomSound
<1>10. OrderSound'
  BY <1>1, <1>5 DEF NodesSound, OrderSound
<1>11. SelfSound'
  BY <1>1, <1>3 DEF NodesSound, SelfSound
<1> QED BY <1>2, <1>3, <1>6, <1>7, <1>8, <1>9, <1>10, <1>11 DEF NodesSound

\* The capacity of a node that exists holds a pool.
LEMMA TwoPages ==
    ASSUME AllocatorTyped, NEW n \in heap
    PROVE  Capacity(n) \in Nat /\ Header + PoolSize <= Capacity(n) /\ Header + PoolSize \in Nat /\ Header \in Nat
<1>1. index[n] \in Nat \ {0} /\ Boundary \in Nat \ {0} /\ Header \in Nat /\ PoolSize \in 1..2 * Boundary - Header
  BY AllocatorAssumption, PoolAssumption DEF AllocatorTyped, Numbered
<1>2. 2 <= index[n] + 1 /\ 2 \in Nat /\ index[n] + 1 \in Nat
  BY <1>1
<1>3. 2 * Boundary <= (index[n] + 1) * Boundary
  BY <1>1, <1>2, PagesGrow
<1>4. Header + PoolSize <= 2 * Boundary /\ Header + PoolSize \in Nat
  BY <1>1
<1>5. (index[n] + 1) * Boundary \in Nat
  BY <1>1
<1> QED BY <1>1, <1>3, <1>4, <1>5 DEF Capacity, Pages

\* make_child, up to the new node.
LEMMA HandFilled ==
    ASSUME NodesSound, ~deleted, NEW t \in Threads, NEW p \in Pools, NEW n \in Nodes, making[t] = <<>>,
           Alloc(2 * Boundary - Header, n), making' = [making EXCEPT ![t] = <<p, n>>],
           UNCHANGED <<nodeVars, self, deleted>>
    PROVE  NodesSound' /\ \A q \in Pools : In(q)' = In(q) /\ (Exists(q)' <=> Exists(q))
<1> DEFINE size == 2 * Boundary - Header
<1>1. size \in Nat /\ Header \in Nat
  BY AllocatorAssumption
<1>2. AllocatorTyped /\ AllocatorExact
  BY DEF NodesSound, AllocatorSound
<1> HIDE DEF size
<1>3. AllocatorTyped' /\ AllocatorExact' /\ Obtained(n, size)
  <2>1. Alloc(size, n)
    BY DEF size
  <2> QED BY <1>1, <1>2, <2>1, AllocSound
<1>4. UNCHANGED <<used, freeIndex, ring, self, deleted>>
  BY DEF nodeVars
<1>5. \A q \in Pools : In(q)' = In(q) /\ (Exists(q)' <=> Exists(q))
  BY <1>4 DEF In, Exists
<1>6. used[n] = Header /\ \A q \in Pools : n \notin In(q)
  BY <1>3, ObtainedFresh
<1>7. /\ \A m \in heap : m \in heap' /\ index'[m] = index[m] /\ m \in Nodes
      /\ \A m \in heap' : m \in heap \/ m = n
      /\ \A m : m \in Kept' <=> m \in Kept /\ m # n
      /\ n \in heap' /\ Header + size <= Capacity(n)'
  BY <1>2, <1>3 DEF Obtained, Plus, Minus, AllocatorTyped
<1>8. AllocatorSound'
  BY <1>3 DEF AllocatorSound
<1>9. RingsApart'
  BY <1>4, <1>5, <1>7 DEF NodesSound, RingsApart
<1>10. HandsApart
  BY DEF NodesSound
<1>11. making'[t] = <<p, n>> /\ \A u \in Threads : u # t => making'[u] = making[u]
  BY <1>10 DEF HandsApart
<1>12. making' \in [Threads -> {<<>>} \cup Pools \X Nodes]
  BY <1>10 DEF HandsApart
<1>13. \A u \in Threads : making[u] # <<>> => making[u][2] # n
  BY <1>3, <1>10 DEF HandsApart, Obtained
<1>14. <<p, n>>[2] = n /\ <<p, n>> # <<>>
  OBVIOUS
<1>15. HandsApart'
  <2>1. ASSUME NEW u \in Threads, making'[u] # <<>>
        PROVE  making'[u][2] \in heap' /\ making'[u][2] \notin Kept'
               /\ \A q \in Pools : making'[u][2] \notin In(q)'
    <3>1. CASE u = t
      BY <1>5, <1>6, <1>7, <1>11, <1>14, <3>1
    <3>2. CASE u # t
      BY <1>5, <1>7, <1>10, <1>11, <1>13, <2>1, <3>2 DEF HandsApart
    <3> QED BY <3>1, <3>2
  <2>2. ASSUME NEW u \in Threads, NEW v \in Threads, making'[u] # <<>>, making'[v] # <<>>,
               making'[u][2] = making'[v][2]
        PROVE  u = v
    BY <1>10, <1>11, <1>13, <1>14, <2>2 DEF HandsApart
  <2> QED BY <1>12, <2>1, <2>2 DEF HandsApart
<1>16. NoneLost'
  <2>1. ASSUME NEW m \in heap'
        PROVE  \/ m \in Kept' \/ \E q \in Pools : m \in In(q)'
               \/ \E u \in Threads : making'[u] # <<>> /\ making'[u][2] = m
    <3>1. CASE m = n
      BY <1>11, <1>14, <3>1
    <3>2. CASE m # n
      <4>1. m \in heap
        BY <1>7, <2>1, <3>2
      <4>2. \/ m \in Kept \/ \E q \in Pools : m \in In(q)
            \/ \E u \in Threads : making[u] # <<>> /\ making[u][2] = m
        BY <4>1 DEF NodesSound, NoneLost
      <4> QED BY <1>5, <1>7, <1>11, <3>2, <4>2
    <3> QED BY <3>1, <3>2
  <2> QED BY <2>1 DEF NoneLost
<1>17. RoomSound'
  <2>1. RoomSound
    BY DEF NodesSound
  <2>2. ASSUME NEW m \in heap' PROVE used[m] <= Capacity(m)'
    <3>1. CASE m = n
      <4>1. Capacity(n)' \in Int
        BY <1>3, <1>7, TwoPages, AllocatorAssumption DEF Capacity, Pages, AllocatorTyped, Numbered
      <4> QED BY <1>1, <1>6, <1>7, <3>1, <4>1
    <3>2. CASE m # n
      <4>1. m \in heap /\ index'[m] = index[m]
        BY <1>7, <2>2, <3>2
      <4> QED BY <2>1, <4>1 DEF RoomSound, Capacity, Pages
    <3> QED BY <3>1, <3>2
  <2> QED BY <1>4, <1>5, <2>1, <2>2 DEF RoomSound
<1>18. OrderSound'
  <2>1. ASSUME NEW q \in Pools PROVE Sorted(ring[q], freeIndex, PagesLeft')
    <3>1. Lists(ring[q], Nodes, In(q)) /\ Sorted(ring[q], freeIndex, PagesLeft)
      BY DEF NodesSound, RingsApart, OrderSound
    <3>2. ASSUME NEW x \in In(q) PROVE PagesLeft'[x] = PagesLeft[x]
      <4>1. x \in heap
        BY DEF NodesSound, RingsApart
      <4> QED BY <1>4, <1>7, <4>1, PagesLeftSame
    <3> QED BY <3>1, <3>2, SortedSame
  <2> QED BY <1>4, <2>1 DEF OrderSound
<1>19. SelfSound'
  BY <1>4, <1>5 DEF NodesSound, SelfSound
<1> QED BY <1>5, <1>8, <1>9, <1>15, <1>16, <1>17, <1>18, <1>19 DEF NodesSound

\* A new pool lies in its one node.
LEMMA NewPoolIs ==
    ASSUME NodesSound, NEW q \in Pools, NEW n \in Nodes, NewPool(q, n)
    PROVE  /\ DOMAIN ring' = Pools /\ ring' = [p \in Pools |-> ring'[p]]
           /\ ring'[q] = <<n>> /\ \A p \in Pools : p # q => ring'[p] = ring[p]
           /\ Lists(ring'[q], Nodes, {n}) /\ In(q)' = {n} /\ \A p \in Pools : p # q => In(p)' = In(p)
           /\ used' \in [Nodes -> Nat] /\ freeIndex' \in [Nodes -> Int]
           /\ used'[n] = Header + PoolSize
           /\ \A m \in Nodes : m # n => used'[m] = IF m \in In(q) THEN Header ELSE used[m]
           /\ \A m \in Nodes : m \notin In(q) => freeIndex'[m] = freeIndex[m]
           /\ self' \in [Pools -> Nodes \cup {NULL}]
           /\ self'[q] = n /\ \A p \in Pools : p # q => self'[p] = self[p]
<1>1. RingsApart /\ RoomSound /\ SelfSound
  BY DEF NodesSound
<1>2. /\ ring' = [ring EXCEPT ![q] = <<n>>]
      /\ used' = [Unused(q) EXCEPT ![n] = Header + PoolSize]
      /\ freeIndex' = [m \in Nodes |-> IF m \in In(q) THEN 0 ELSE freeIndex[m]]
      /\ self' = [self EXCEPT ![q] = n]
  BY DEF NewPool, In
<1>3. /\ DOMAIN ring' = Pools /\ ring' = [p \in Pools |-> ring'[p]]
      /\ ring'[q] = <<n>> /\ \A p \in Pools : p # q => ring'[p] = ring[p]
  BY <1>1, <1>2 DEF RingsApart
<1>4. Lists(<<n>>, Nodes, {n})
  <2>1. <<n>> \in Seq(Nodes) /\ Len(<<n>>) = 1 /\ <<n>>[1] = n
    OBVIOUS
  <2>2. \A x : x \in ToSet(<<n>>) <=> \E i \in 1..Len(<<n>>) : <<n>>[i] = x
    BY <2>1, InList
  <2>3. ToSet(<<n>>) = {n}
    BY <2>1, <2>2
  <2> QED BY <2>1, <2>3 DEF Lists, Distinct
<1>5. Lists(ring'[q], Nodes, {n}) /\ In(q)' = {n} /\ \A p \in Pools : p # q => In(p)' = In(p)
  BY <1>3, <1>4 DEF In, Lists
<1>6. Header + PoolSize \in Nat /\ Header \in Nat
  BY AllocatorAssumption, PoolAssumption
<1>7. Unused(q) \in [Nodes -> Nat] /\ \A m \in Nodes : Unused(q)[m] = IF m \in In(q) THEN Header ELSE used[m]
  BY <1>1, <1>6 DEF Unused, RoomSound, In
<1>8. /\ used' \in [Nodes -> Nat] /\ used'[n] = Header + PoolSize
      /\ \A m \in Nodes : m # n => used'[m] = Unused(q)[m]
  <2> DEFINE u == Unused(q)
  <2>1. u \in [Nodes -> Nat] /\ used' = [u EXCEPT ![n] = Header + PoolSize]
    BY <1>2, <1>7
  <2> HIDE DEF u
  <2>2. used' \in [Nodes -> Nat] /\ used'[n] = Header + PoolSize /\ \A m \in Nodes : m # n => used'[m] = u[m]
    BY <1>6, <2>1
  <2> QED BY <2>2 DEF u
<1>9. freeIndex' \in [Nodes -> Int] /\ \A m \in Nodes : m \notin In(q) => freeIndex'[m] = freeIndex[m]
  BY <1>1, <1>2 DEF RoomSound
<1>10. /\ self' \in [Pools -> Nodes \cup {NULL}]
       /\ self'[q] = n /\ \A p \in Pools : p # q => self'[p] = self[p]
  BY <1>1, <1>2 DEF SelfSound
<1> QED BY <1>3, <1>5, <1>7, <1>8, <1>9, <1>10

\* make_child, once the new node is there.
LEMMA LinkSound ==
    ASSUME NodesSound, NEW t \in Threads, NEW q \in Pools, making[t] # <<>>, ~Exists(q),
           NewPool(q, making[t][2]), making' = [making EXCEPT ![t] = <<>>],
           UNCHANGED <<allocatorVars, deleted>>
    PROVE  /\ NodesSound' /\ Exists(q)' /\ \A p \in Pools : p # q => (Exists(p)' <=> Exists(p)) /\ In(p)' = In(p)
<1> DEFINE n == making[t][2]
<1>1. /\ RingsApart /\ RoomSound /\ SelfSound /\ AllocatorTyped /\ HandsApart /\ NoneLost /\ OrderSound
  BY DEF NodesSound, AllocatorSound
<1>2. n \in heap /\ n \notin Kept /\ (\A p \in Pools : n \notin In(p)) /\ n \in Nodes
  BY <1>1 DEF HandsApart, AllocatorTyped
<1>3. NewPool(q, n)
  OBVIOUS
<1> HIDE DEF n
<1>4. /\ DOMAIN ring' = Pools /\ ring' = [p \in Pools |-> ring'[p]]
      /\ ring'[q] = <<n>> /\ \A p \in Pools : p # q => ring'[p] = ring[p]
      /\ Lists(ring'[q], Nodes, {n}) /\ In(q)' = {n} /\ \A p \in Pools : p # q => In(p)' = In(p)
      /\ used' \in [Nodes -> Nat] /\ freeIndex' \in [Nodes -> Int]
      /\ used'[n] = Header + PoolSize
      /\ \A m \in Nodes : m # n => used'[m] = IF m \in In(q) THEN Header ELSE used[m]
      /\ \A m \in Nodes : m \notin In(q) => freeIndex'[m] = freeIndex[m]
      /\ self' \in [Pools -> Nodes \cup {NULL}]
      /\ self'[q] = n /\ \A p \in Pools : p # q => self'[p] = self[p]
  BY <1>2, <1>3, NewPoolIs
<1>5. In(q) = {}
  BY <1>1, RingIs
<1>6. AllocatorSound' /\ Kept' = Kept
  BY AllocatorSame DEF NodesSound
<1>7. heap' = heap /\ index' = index
  BY DEF allocatorVars
<1>8. making' \in [Threads -> {<<>>} \cup Pools \X Nodes] /\ making'[t] = <<>>
      /\ \A u \in Threads : u # t => making'[u] = making[u]
  BY <1>1 DEF HandsApart
<1>9. \A p \in Pools : \A m : m \in In(p)' <=> m \in In(p) \/ (p = q /\ m = n)
  BY <1>4, <1>5
<1>10. RingsApart'
  <2>1. ASSUME NEW p \in Pools PROVE Lists(ring'[p], Nodes, In(p)')
    <3>1. CASE p = q
      BY <1>4, <3>1
    <3>2. CASE p # q
      <4>1. ring'[p] = ring[p] /\ In(p)' = In(p)
        BY <1>4, <3>2
      <4> QED BY <1>1, <4>1 DEF RingsApart
    <3> QED BY <3>1, <3>2
  <2>2. \A p \in Pools : \A m \in In(p)' : m \in heap' /\ m \notin Kept'
    BY <1>1, <1>2, <1>6, <1>7, <1>9 DEF RingsApart
  <2>3. \A p, r \in Pools : \A m \in Nodes : m \in In(p)' /\ m \in In(r)' => p = r
    BY <1>1, <1>2, <1>9 DEF RingsApart
  <2> QED BY <1>4, <2>1, <2>2, <2>3 DEF RingsApart
<1>11. HandsApart'
  <2>1. ASSUME NEW u \in Threads, making'[u] # <<>>
        PROVE  u # t /\ making'[u] = making[u] /\ making[u][2] # n
    <3>1. u # t /\ making'[u] = making[u] /\ making[u] # <<>>
      BY <1>8, <2>1
    <3> QED BY <1>1, <3>1 DEF HandsApart, n
  <2>2. ASSUME NEW u \in Threads, making'[u] # <<>>
        PROVE  making'[u][2] \in heap' /\ making'[u][2] \notin Kept'
               /\ \A p \in Pools : making'[u][2] \notin In(p)'
    BY <1>1, <1>6, <1>7, <1>9, <2>1, <2>2 DEF HandsApart
  <2>3. ASSUME NEW u \in Threads, NEW v \in Threads, making'[u] # <<>>, making'[v] # <<>>,
               making'[u][2] = making'[v][2]
        PROVE  u = v
    BY <1>1, <2>1, <2>3 DEF HandsApart
  <2> QED BY <1>8, <2>2, <2>3 DEF HandsApart
<1>12. NoneLost'
  <2>1. ASSUME NEW m \in heap'
        PROVE  \/ m \in Kept' \/ \E p \in Pools : m \in In(p)'
               \/ \E u \in Threads : making'[u] # <<>> /\ making'[u][2] = m
    <3>1. CASE m = n
      BY <1>9, <3>1
    <3>2. CASE m # n
      <4>1. \/ m \in Kept \/ \E p \in Pools : m \in In(p)
            \/ \E u \in Threads : making[u] # <<>> /\ making[u][2] = m
        BY <1>1, <1>7 DEF NoneLost
      <4>2. \A u \in Threads : making[u][2] = m => u # t
        BY <3>2 DEF n
      <4> QED BY <1>6, <1>8, <1>9, <4>1, <4>2
    <3> QED BY <3>1, <3>2
  <2> QED BY <2>1 DEF NoneLost
<1>13. \A m \in Nodes : m # n => used'[m] = used[m] /\ freeIndex'[m] = freeIndex[m]
  BY <1>4, <1>5
<1>14. RoomSound'
  <2>1. ASSUME NEW m \in heap' PROVE used'[m] <= Capacity(m)'
    <3>1. CASE m = n
      <4>1. Header + PoolSize <= Capacity(n)
        BY <1>1, <1>2, TwoPages
      <4> QED BY <1>4, <1>7, <3>1, <4>1 DEF Capacity, Pages
    <3>2. CASE m # n
      <4>1. m \in heap /\ m \in Nodes /\ used[m] <= Capacity(m)
        BY <1>1, <1>7 DEF RoomSound, AllocatorTyped
      <4> QED BY <1>7, <1>13, <3>2, <4>1 DEF Capacity, Pages
    <3> QED BY <3>1, <3>2
  <2>2. ASSUME NEW m \in Nodes, \A p \in Pools : m \notin In(p)' PROVE used'[m] = Header
    <3>1. m # n /\ \A p \in Pools : m \notin In(p)
      BY <1>9, <2>2
    <3> QED BY <1>1, <1>13, <3>1 DEF RoomSound
  <2> QED BY <1>4, <2>1, <2>2 DEF RoomSound
<1>15. OrderSound'
  <2>1. ASSUME NEW p \in Pools, p # q PROVE Sorted(ring'[p], freeIndex', PagesLeft')
    <3>1. Lists(ring[p], Nodes, In(p)) /\ Sorted(ring[p], freeIndex, PagesLeft)
      BY <1>1 DEF RingsApart, OrderSound
    <3>2. ASSUME NEW x \in In(p) PROVE freeIndex'[x] = freeIndex[x] /\ PagesLeft'[x] = PagesLeft[x]
      <4>1. x \in Nodes /\ x # n
        BY <1>1, <1>2, RingIs
      <4> QED BY <1>7, <1>13, <4>1, PagesLeftSame
    <3>3. Sorted(ring[p], freeIndex', PagesLeft')
      BY <3>1, <3>2, SortedSame
    <3> QED BY <1>4, <2>1, <3>3
  <2>2. Sorted(ring'[q], freeIndex', PagesLeft')
    BY <1>4, SortedShort
  <2> QED BY <2>1, <2>2 DEF OrderSound
<1>16. Exists(q)' /\ \A p \in Pools : p # q => (Exists(p)' <=> Exists(p)) /\ In(p)' = In(p)
  BY <1>4 DEF Exists
<1>17. SelfSound'
  <2>1. ASSUME NEW p \in Pools, Exists(p)' PROVE self'[p] \in In(p)'
    BY <1>1, <1>4, <1>16, <2>1 DEF SelfSound
  <2> QED BY <1>4, <2>1 DEF SelfSound
<1> QED BY <1>6, <1>10, <1>11, <1>12, <1>14, <1>15, <1>16, <1>17 DEF NodesSound

-------------------------------------------------------------------------------
\* Nodes go back to the allocator.

LEMMA InSeq ==
    ASSUME NEW S, NEW T, NEW s \in Seq(S), \A i \in 1..Len(s) : s[i] \in T
    PROVE  s \in Seq(T)
<1>1. Len(s) \in Nat /\ s \in [1..Len(s) -> S]
  BY LenProperties
<1>2. s \in [1..Len(s) -> T]
  BY <1>1
<1> QED BY <1>1, <1>2, SeqDef

\* Of the ring of p the nodes R, listed by c, are given back, and K, one node at most, stays.
Shrinks(p, c, R, K) ==
    /\ Lists(c, Nodes, R) /\ R \subseteq In(p)
    /\ \A n : n \in K <=> n \in In(p) /\ n \notin R
    /\ DOMAIN ring' = Pools /\ ring' = [q \in Pools |-> ring'[q]]
    /\ \A q \in Pools : q # p => ring'[q] = ring[q]
    /\ Lists(ring'[p], Nodes, K) /\ Sorted(ring'[p], freeIndex', PagesLeft')
    /\ used' \in [Nodes -> Nat] /\ freeIndex' \in [Nodes -> Int]
    /\ \A n \in Nodes : n \notin In(p) => used'[n] = used[n] /\ freeIndex'[n] = freeIndex[n]
    /\ \A n \in R : used'[n] = Header
    /\ \A n \in K : used'[n] = Header + PoolSize
    /\ self' \in [Pools -> Nodes \cup {NULL}] /\ \A q \in Pools : q # p => self'[q] = self[q]
    /\ K # {} => self'[p] \in K

LEMMA ShrinkSound ==
    ASSUME NodesSound, ~deleted, NEW p \in Pools, NEW c, NEW R, NEW K, Free(c), Shrinks(p, c, R, K),
           UNCHANGED <<making, deleted>>
    PROVE  /\ NodesSound' /\ (Exists(p)' <=> K # {}) /\ In(p)' = K
           /\ \A q \in Pools : q # p => (Exists(q)' <=> Exists(q)) /\ In(q)' = In(q)
<1>b. c \in Seq(Nodes) /\ \A i \in 1..Len(c) : c[i] \in R
  <2>1. Lists(c, Nodes, R)
    BY DEF Shrinks
  <2> QED BY <2>1, ListsIs
<1>a. /\ Lists(c, Nodes, R) /\ R \subseteq In(p)
      /\ \A n : n \in K <=> n \in In(p) /\ n \notin R
      /\ DOMAIN ring' = Pools /\ ring' = [q \in Pools |-> ring'[q]]
      /\ \A q \in Pools : q # p => ring'[q] = ring[q]
      /\ Lists(ring'[p], Nodes, K) /\ Sorted(ring'[p], freeIndex', PagesLeft')
      /\ used' \in [Nodes -> Nat] /\ freeIndex' \in [Nodes -> Int]
      /\ \A n \in Nodes : n \notin In(p) => used'[n] = used[n] /\ freeIndex'[n] = freeIndex[n]
      /\ \A n \in R : used'[n] = Header
      /\ \A n \in K : used'[n] = Header + PoolSize
      /\ self' \in [Pools -> Nodes \cup {NULL}] /\ \A q \in Pools : q # p => self'[q] = self[q]
      /\ K # {} => self'[p] \in K
  BY DEF Shrinks
<1> USE <1>a
<1>1. /\ RingsApart /\ RoomSound /\ SelfSound /\ AllocatorTyped /\ AllocatorExact /\ HandsApart
      /\ NoneLost /\ OrderSound
  BY DEF NodesSound, AllocatorSound
<1>2. R \subseteq heap /\ (\A n \in R : n \notin Kept) /\ In(p) \subseteq Nodes
  BY <1>1, RingIs DEF RingsApart
<1>3. Freeable(c)
  <2>2. \A i \in 1..Len(c) : c[i] \in heap /\ c[i] \notin Kept
    BY <1>2, <1>b
  <2>3. c \in Seq(heap)
    BY <1>b, <2>2, InSeq
  <2>4. \A i, j \in 1..Len(c) : c[i] = c[j] => i = j
    BY DEF Lists, Distinct
  <2> QED BY <2>2, <2>3, <2>4 DEF Freeable
<1>4. AllocatorTyped' /\ AllocatorExact' /\ Released(c)
  BY <1>1, <1>3, FreeSound
<1>5. ToSet(c) = R
  BY DEF Lists
<1>6. PICK back \in SUBSET R :
        /\ heap' = heap \ back /\ Kept' = Kept \cup (R \ back)
        /\ \A n \in Nodes \ back : index'[n] = index[n]
  BY <1>4, <1>5 DEF Released
<1>7. /\ \A n \in heap : n \in heap' \/ n \in back
      /\ \A n \in heap' : n \in heap /\ n \notin back
      /\ \A n : n \in Kept' <=> n \in Kept \/ (n \in R /\ n \notin back)
      /\ \A n \in heap : n \notin R => n \in heap' /\ index'[n] = index[n]
      /\ \A n \in heap' : index'[n] = index[n]
      /\ \A n \in back : n \in R
      /\ heap \subseteq Nodes
  BY <1>1, <1>6 DEF AllocatorTyped
<1>8. In(p)' = K /\ \A q \in Pools : q # p => (Exists(q)' <=> Exists(q)) /\ In(q)' = In(q)
  BY DEF In, Lists, Exists
<1>9. Exists(p)' <=> K # {}
  BY <1>8, ListsIs DEF Exists
<1>10. \A q \in Pools : \A n : n \in In(q)' <=> n \in In(q) /\ ~(q = p /\ n \in R)
  BY <1>8
<1>11. \A q \in Pools : \A n \in In(q)' : n \in In(q) /\ n \notin R
  BY <1>1, <1>2, <1>10 DEF RingsApart
<1>12. RingsApart'
  <2>1. \A q \in Pools : Lists(ring'[q], Nodes, In(q)')
    BY <1>1, <1>8 DEF RingsApart
  <2>2. \A q \in Pools : \A n \in In(q)' : n \in heap' /\ n \notin Kept'
    BY <1>1, <1>7, <1>11 DEF RingsApart
  <2>3. \A q, r \in Pools : \A n \in Nodes : n \in In(q)' /\ n \in In(r)' => q = r
    BY <1>1, <1>11 DEF RingsApart
  <2> QED BY <2>1, <2>2, <2>3 DEF RingsApart
<1>13. HandsApart'
  <2>1. ASSUME NEW t \in Threads, making[t] # <<>>
        PROVE  making[t][2] \in heap' /\ making[t][2] \notin Kept'
               /\ \A q \in Pools : making[t][2] \notin In(q)'
    <3>1. /\ making[t][2] \in heap /\ making[t][2] \notin Kept
          /\ \A q \in Pools : making[t][2] \notin In(q)
      BY <1>1, <2>1 DEF HandsApart
    <3>2. making[t][2] \notin R
      BY <3>1
    <3> QED BY <1>7, <1>10, <3>1, <3>2
  <2> QED BY <1>1, <2>1 DEF HandsApart
<1>14. NoneLost'
  <2>1. ASSUME NEW n \in heap'
        PROVE  \/ n \in Kept' \/ \E q \in Pools : n \in In(q)'
               \/ \E t \in Threads : making[t] # <<>> /\ making[t][2] = n
    <3>1. CASE n \in R
      BY <1>7, <2>1, <3>1
    <3>2. CASE n \notin R
      <4>1. \/ n \in Kept \/ \E q \in Pools : n \in In(q)
            \/ \E t \in Threads : making[t] # <<>> /\ making[t][2] = n
        BY <1>1, <1>7 DEF NoneLost
      <4> QED BY <1>7, <1>10, <3>2, <4>1
    <3> QED BY <3>1, <3>2
  <2> QED BY <2>1 DEF NoneLost
<1>15. RoomSound'
  <2>1. ASSUME NEW n \in heap' PROVE used'[n] <= Capacity(n)'
    <3>0. n \in heap /\ n \in Nodes /\ index'[n] = index[n]
      BY <1>7
    <3>1. /\ Header + PoolSize <= Capacity(n) /\ Header <= Header + PoolSize /\ Capacity(n)' = Capacity(n)
          /\ Header \in Nat /\ Header + PoolSize \in Nat /\ Capacity(n) \in Nat
      BY <1>1, <3>0, TwoPages, PoolAssumption, AllocatorAssumption DEF Capacity, Pages
    <3>2. CASE n \in R
      BY <3>1, <3>2
    <3>3. CASE n \in K
      BY <3>1, <3>3
    <3>4. CASE n \notin In(p)
      BY <1>1, <3>0, <3>1, <3>4 DEF RoomSound
    <3> QED BY <3>2, <3>3, <3>4
  <2>2. ASSUME NEW n \in Nodes, \A q \in Pools : n \notin In(q)' PROVE used'[n] = Header
    <3>1. CASE n \in R
      BY <3>1
    <3>2. CASE n \notin R
      <4>1. \A q \in Pools : n \notin In(q)
        BY <1>10, <2>2, <3>2
      <4> QED BY <1>1, <4>1 DEF RoomSound
    <3> QED BY <3>1, <3>2
  <2> QED BY <2>1, <2>2 DEF RoomSound
<1>16. OrderSound'
  <2>1. ASSUME NEW q \in Pools, q # p PROVE Sorted(ring'[q], freeIndex', PagesLeft')
    <3>1. Lists(ring[q], Nodes, In(q)) /\ Sorted(ring[q], freeIndex, PagesLeft)
      BY <1>1 DEF RingsApart, OrderSound
    <3>2. ASSUME NEW x \in In(q) PROVE freeIndex'[x] = freeIndex[x] /\ PagesLeft'[x] = PagesLeft[x]
      <4>1. x \in Nodes /\ x \in heap
        BY <1>1, RingIs DEF RingsApart
      <4>2. x \notin In(p)
        BY <1>1, <2>1, <4>1 DEF RingsApart
      <4>3. used'[x] = used[x] /\ freeIndex'[x] = freeIndex[x] /\ index'[x] = index[x]
        BY <1>7, <4>1, <4>2
      <4> QED BY <4>1, <4>3, PagesLeftSame
    <3>3. Sorted(ring[q], freeIndex', PagesLeft')
      BY <3>1, <3>2, SortedSame
    <3> QED BY <2>1, <3>3
  <2> QED BY <2>1 DEF OrderSound
<1>17. SelfSound'
  <2>1. ASSUME NEW q \in Pools, Exists(q)' PROVE self'[q] \in In(q)'
    <3>1. CASE q = p
      BY <1>8, <1>9, <2>1, <3>1
    <3>2. CASE q # p
      BY <1>1, <1>8, <2>1, <3>2 DEF SelfSound
    <3> QED BY <3>1, <3>2
  <2> QED BY <2>1 DEF SelfSound
<1>18. AllocatorSound'
  BY <1>4 DEF AllocatorSound
<1> QED BY <1>8, <1>9, <1>12, <1>13, <1>14, <1>15, <1>16, <1>17, <1>18 DEF NodesSound

\* The list of a pool's nodes that ~Pool and clear free.
LEMMA FromSelfIs ==
    ASSUME NodesSound, NEW p \in Pools, Exists(p)
    PROVE  /\ Lists(FromSelf(p), Nodes, In(p)) /\ self[p] \in In(p) /\ self[p] \in Nodes
           /\ Lists(Tail(FromSelf(p)), Nodes, Minus(In(p), self[p]))
<1>1. Lists(ring[p], Nodes, In(p)) /\ self[p] \in In(p) /\ self[p] \in Nodes /\ ring[p] \in Seq(Nodes)
  BY RingIs DEF NodesSound, SelfSound
<1> DEFINE k == CHOOSE i \in DOMAIN ring[p] : ring[p][i] = self[p]
<1>2. DOMAIN ring[p] = 1..Len(ring[p]) /\ \E i \in 1..Len(ring[p]) : ring[p][i] = self[p]
  BY <1>1, ListsIs, LenProperties
<1>3. k \in 1..Len(ring[p]) /\ ring[p][k] = self[p]
  BY <1>2
<1>4. FromSelf(p) = Turned(ring[p], k)
  BY DEF FromSelf, Turned
<1> HIDE DEF k
<1>5. Lists(FromSelf(p), Nodes, In(p)) /\ FromSelf(p) # <<>> /\ FromSelf(p)[1] = self[p]
  BY <1>1, <1>3, <1>4, ListsTurned
<1>6. Lists(Tail(FromSelf(p)), Nodes, Minus(In(p), Head(FromSelf(p)))) /\ Head(FromSelf(p)) = self[p]
  BY <1>5, ListsTail
<1> QED BY <1>1, <1>5, <1>6

\* ~Pool.
LEMMA FreeNodesSound ==
    ASSUME NodesSound, ~deleted, NEW p \in Pools, Exists(p), Free(FromSelf(p)),
           ring' = [ring EXCEPT ![p] = <<>>], used' = Unused(p),
           freeIndex' = [n \in Nodes |-> IF n \in ToSet(ring[p]) THEN 0 ELSE freeIndex[n]],
           self' = [self EXCEPT ![p] = NULL], UNCHANGED <<making, deleted>>
    PROVE  /\ NodesSound' /\ ~Exists(p)'
           /\ \A q \in Pools : q # p => (Exists(q)' <=> Exists(q)) /\ In(q)' = In(q)
<1>1. RingsApart /\ RoomSound /\ SelfSound
  BY DEF NodesSound
<1>2. Lists(FromSelf(p), Nodes, In(p)) /\ In(p) \subseteq Nodes
  BY <1>1, RingIs, FromSelfIs
<1>3. /\ DOMAIN ring' = Pools /\ ring' = [q \in Pools |-> ring'[q]]
      /\ \A q \in Pools : q # p => ring'[q] = ring[q]
      /\ ring'[p] = <<>>
  BY <1>1 DEF RingsApart
<1>4. Lists(ring'[p], Nodes, {}) /\ Sorted(ring'[p], freeIndex', PagesLeft')
  BY <1>3, ListsEmpty, SortedShort
<1>5. Header \in Nat
  BY AllocatorAssumption
<1>6. used' \in [Nodes -> Nat] /\ \A n \in Nodes : used'[n] = IF n \in In(p) THEN Header ELSE used[n]
  BY <1>1, <1>5 DEF Unused, RoomSound, In
<1>7. freeIndex' \in [Nodes -> Int] /\ \A n \in Nodes : n \notin In(p) => freeIndex'[n] = freeIndex[n]
  BY <1>1 DEF RoomSound, In
<1>8. self' \in [Pools -> Nodes \cup {NULL}] /\ \A q \in Pools : q # p => self'[q] = self[q]
  BY <1>1 DEF SelfSound
<1>9. \A n \in In(p) : used'[n] = Header
  BY <1>2, <1>6
<1>10. \A n \in Nodes : n \notin In(p) => used'[n] = used[n] /\ freeIndex'[n] = freeIndex[n]
  BY <1>6, <1>7
<1>11. Free(FromSelf(p))
  OBVIOUS
<1> DEFINE K == {}
<1>12. (\A n : n \in K <=> n \in In(p) /\ n \notin In(p)) /\ Lists(ring'[p], Nodes, K)
       /\ (\A n \in K : used'[n] = Header + PoolSize) /\ ~(K # {})
  BY <1>4
<1> HIDE DEF K
<1>13. /\ NodesSound' /\ (Exists(p)' <=> K # {})
       /\ \A q \in Pools : q # p => (Exists(q)' <=> Exists(q)) /\ In(q)' = In(q)
  <2>1. used' \in [Nodes -> Nat] /\ freeIndex' \in [Nodes -> Int]
    BY <1>6, <1>7
  <2>2. PICK c : c = FromSelf(p)
    OBVIOUS
  <2>3. Free(c) /\ Lists(c, Nodes, In(p))
    BY <1>2, <1>11, <2>2
  <2>4. PICK R : R = In(p)
    OBVIOUS
  <2>5. /\ Lists(c, Nodes, R) /\ R \subseteq In(p) /\ (\A n \in R : used'[n] = Header)
        /\ \A n : n \in K <=> n \in In(p) /\ n \notin R
    BY <1>9, <1>12, <2>3, <2>4
  <2>6. Shrinks(p, c, R, K)
    BY <1>3, <1>4, <1>8, <1>10, <1>12, <2>1, <2>5 DEF Shrinks
  <2> QED BY <2>3, <2>6, ShrinkSound
<1> QED BY <1>12, <1>13

\* clear.
LEMMA ResetSound ==
    ASSUME NodesSound, ~deleted, NEW p \in Pools, Exists(p), Free(Tail(FromSelf(p))),
           NewPool(p, self[p]), UNCHANGED <<making, deleted>>
    PROVE  /\ NodesSound' /\ Exists(p)'
           /\ \A q \in Pools : q # p => (Exists(q)' <=> Exists(q)) /\ In(q)' = In(q)
           /\ \A n \in Nodes : n \notin In(p) => used'[n] = used[n]
<1> DEFINE n == self[p]
           R == Minus(In(p), n)
           K == {n}
<1>1. RingsApart /\ RoomSound /\ SelfSound /\ In(p) \subseteq Nodes
  BY RingIs DEF NodesSound
<1>2. /\ Lists(Tail(FromSelf(p)), Nodes, R) /\ n \in In(p) /\ n \in Nodes
  BY FromSelfIs
<1>3. NewPool(p, n) /\ Free(Tail(FromSelf(p)))
  OBVIOUS
<1> HIDE DEF n
<1>4. /\ DOMAIN ring' = Pools /\ ring' = [q \in Pools |-> ring'[q]]
      /\ ring'[p] = <<n>> /\ \A q \in Pools : q # p => ring'[q] = ring[q]
      /\ Lists(ring'[p], Nodes, K)
      /\ used' \in [Nodes -> Nat] /\ freeIndex' \in [Nodes -> Int]
      /\ used'[n] = Header + PoolSize
      /\ \A m \in Nodes : m # n => used'[m] = IF m \in In(p) THEN Header ELSE used[m]
      /\ \A m \in Nodes : m \notin In(p) => freeIndex'[m] = freeIndex[m]
      /\ self' \in [Pools -> Nodes \cup {NULL}]
      /\ self'[p] = n /\ \A q \in Pools : q # p => self'[q] = self[q]
  BY <1>2, <1>3, NewPoolIs
<1>5. R \subseteq In(p) /\ (\A m : m \in R <=> m \in In(p) /\ m # n) /\ (\A m : m \in K <=> m = n) /\ n \in K
  BY DEF Minus
<1> HIDE DEF R, K
<1>6. \A m : m \in K <=> m \in In(p) /\ m \notin R
  BY <1>2, <1>5
<1>7. Sorted(ring'[p], freeIndex', PagesLeft')
  BY <1>4, SortedShort
<1>8. (\A m \in R : used'[m] = Header) /\ (\A m \in K : used'[m] = Header + PoolSize)
  BY <1>1, <1>4, <1>5
<1>9. \A m \in Nodes : m \notin In(p) => used'[m] = used[m] /\ freeIndex'[m] = freeIndex[m]
  BY <1>2, <1>4
<1>10. K # {} /\ self'[p] \in K
  BY <1>4, <1>5
<1>11. /\ NodesSound' /\ (Exists(p)' <=> K # {})
       /\ \A q \in Pools : q # p => (Exists(q)' <=> Exists(q)) /\ In(q)' = In(q)
  <2>1. PICK c : c = Tail(FromSelf(p))
    OBVIOUS
  <2>2. Free(c) /\ Lists(c, Nodes, R)
    BY <1>2, <1>3, <2>1
  <2>3. Shrinks(p, c, R, K)
    BY <1>4, <1>5, <1>6, <1>7, <1>8, <1>9, <1>10, <2>2 DEF Shrinks
  <2> QED BY <2>2, <2>3, ShrinkSound
<1> QED BY <1>9, <1>10, <1>11

\* The end of the allocator, when no pool is left and no thread makes one.
LEMMA FreedAll ==
    ASSUME NodesSound, \A q \in Pools : ~Exists(q), \A t \in Threads : making[t] = <<>>, FreeAll,
           deleted' = TRUE, UNCHANGED <<nodeVars, self, making>>
    PROVE  /\ NodesSound' /\ heap' = {} /\ \A q \in Pools : In(q)' = In(q) /\ (Exists(q)' <=> Exists(q))
<1>1. UNCHANGED <<used, freeIndex, ring>>
  BY DEF nodeVars
<1>2. RingsApart /\ RoomSound /\ HandsApart /\ NoneLost /\ SelfSound /\ AllocatorTyped
  BY DEF NodesSound, AllocatorSound
<1>3. AllocatorTyped' /\ heap' = heap \ Kept
  BY <1>2, FreeAllSound
<1>4. \A q \in Pools : In(q)' = In(q) /\ (Exists(q)' <=> Exists(q))
  BY <1>1 DEF In, Exists
<1>5. \A q \in Pools : In(q) = {} /\ ring[q] = <<>>
  BY <1>2, RingIs DEF Exists
<1>6. heap' = {}
  BY <1>2, <1>3, <1>5 DEF NoneLost
<1>7. RingsApart'
  BY <1>1, <1>2, <1>4, <1>5 DEF RingsApart
<1>8. HandsApart'
  BY <1>2 DEF HandsApart
<1>9. NoneLost'
  BY <1>6 DEF NoneLost
<1>10. RoomSound'
  BY <1>1, <1>2, <1>4, <1>6 DEF RoomSound
<1>11. OrderSound'
  BY <1>1, <1>5, SortedShort DEF OrderSound
<1>12. SelfSound'
  BY <1>2, <1>4 DEF SelfSound
<1>13. AllocatorSound'
  BY <1>3 DEF AllocatorSound
<1> QED BY <1>4, <1>6, <1>7, <1>8, <1>9, <1>10, <1>11, <1>12, <1>13 DEF NodesSound

-------------------------------------------------------------------------------
\* What the invariant says of the nodes.

LEMMA InjectiveIs ==
    ASSUME NEW S, NEW s \in Seq(S), \A i, j \in 1..Len(s) : s[i] = s[j] => i = j
    PROVE  IsInjective(s)
BY LenProperties DEF IsInjective

LEMMA ConservedFromSound == NodesSound => NodesConserved
<1> SUFFICES ASSUME NodesSound PROVE NodesConserved
  OBVIOUS
<1>1. AllocatorTyped /\ RingsApart /\ HandsApart /\ NoneLost
  BY DEF NodesSound, AllocatorSound
<1>2. BucketsSound(buf, heap, index) /\ BucketsOf(buf, heap) /\ DOMAIN buf = 0..MaxIndex - 1
  BY <1>1 DEF AllocatorTyped, BucketsSound, BucketsOf
<1>3. Kept \subseteq heap
  BY <1>2, KeptIs, InBucketsIs
<1>4. \A n : n \in Rings <=> \E p \in Pools : n \in In(p)
  BY DEF Rings, In
<1>5. \A n : n \in Held <=> \E t \in Threads : making[t] # <<>> /\ making[t][2] = n
  <2>1. DOMAIN making = Threads
    BY <1>1 DEF HandsApart
  <2> QED BY <2>1 DEF Held
<1>6. heap = Kept \cup Rings \cup Held
  <2>1. \A n : n \in Rings => n \in heap
    BY <1>1, <1>4 DEF RingsApart
  <2>2. \A n : n \in Held => n \in heap
    BY <1>1, <1>5 DEF HandsApart
  <2>3. \A n \in heap : n \in Kept \/ n \in Rings \/ n \in Held
    BY <1>1, <1>4, <1>5 DEF NoneLost
  <2> QED BY <1>3, <2>1, <2>2, <2>3
<1>7. Kept \cap Rings = {} /\ Held \cap (Kept \cup Rings) = {}
  <2>1. \A n : n \in Rings => n \notin Kept
    BY <1>1, <1>4 DEF RingsApart
  <2>2. \A n : n \in Held => n \notin Kept /\ n \notin Rings
    BY <1>1, <1>4, <1>5 DEF HandsApart
  <2> QED BY <2>1, <2>2
<1>8. ASSUME NEW i \in DOMAIN buf
      PROVE  /\ IsInjective(buf[i]) /\ \A n \in ToSet(buf[i]) : i = BucketOf(index[n])
  <2>1. /\ i \in 0..MaxIndex - 1 /\ buf[i] \in Seq(heap)
        /\ \A k \in 1..Len(buf[i]) : i = BucketOf(index[buf[i][k]])
        /\ \A k, l \in 1..Len(buf[i]) : buf[i][k] = buf[i][l] => k = l
    BY <1>2, <1>8 DEF BucketsSound, BucketsOf
  <2>2. \A n : n \in ToSet(buf[i]) <=> \E k \in 1..Len(buf[i]) : buf[i][k] = n
    BY <2>1, InList
  <2> QED BY <2>1, <2>2, InjectiveIs
<1>9. \A i, j \in DOMAIN buf : i # j => ToSet(buf[i]) \cap ToSet(buf[j]) = {}
  BY <1>8
<1>10. \A p, q \in Pools : p # q => ToSet(ring[p]) \cap ToSet(ring[q]) = {}
  <2> SUFFICES ASSUME NEW p \in Pools, NEW q \in Pools, p # q PROVE In(p) \cap In(q) = {}
    BY DEF In
  <2>1. In(p) \subseteq Nodes
    BY <1>1, RingIs
  <2> QED BY <1>1, <2>1 DEF RingsApart
<1>11. \A p \in Pools : IsInjective(ring[p])
  <2> SUFFICES ASSUME NEW p \in Pools PROVE IsInjective(ring[p])
    OBVIOUS
  <2>1. ring[p] \in Seq(Nodes) /\ Distinct(ring[p])
    BY <1>1 DEF RingsApart, Lists
  <2> QED BY <2>1, InjectiveIs DEF Distinct
<1>12. \A t, u \in DOMAIN making : t # u /\ making[t] # <<>> /\ making[u] # <<>> =>
            making[t][2] # making[u][2]
  BY <1>1 DEF HandsApart
<1>13. allocated = PagesOf(heap)
  BY <1>1, PagesOfIs DEF AllocatorTyped
<1> QED BY <1>6, <1>7, <1>8, <1>9, <1>10, <1>11, <1>12, <1>13 DEF NodesConserved

LEMMA SummariesFromSound == NodesSound => SummariesExact
<1> SUFFICES ASSUME NodesSound PROVE SummariesExact
  OBVIOUS
<1>1. LastExact
  BY DEF NodesSound, AllocatorSound, AllocatorExact, LastIs, LastExact
<1>2. KeptBounded
  BY KeptIs, PagesOfIs DEF NodesSound, AllocatorSound, AllocatorExact, RoomIs, KeptBounded
<1>3. RingSorted
  <2> SUFFICES ASSUME NEW p \in Pools, NEW i \in 2..Len(ring[p])
               PROVE  /\ freeIndex[ring[p][i]] = FreePages(ring[p][i])
                      /\ i > 2 => FreePages(ring[p][i]) <= FreePages(ring[p][i - 1])
    BY DEF RingSorted
  <2>1. /\ Sorted(ring[p], freeIndex, PagesLeft) /\ ring[p] \in Seq(Nodes) /\ Len(ring[p]) \in Nat
    BY RingIs, LenProperties DEF NodesSound, OrderSound
  <2>2. \A k \in 1..Len(ring[p]) : PagesLeft[ring[p][k]] = FreePages(ring[p][k])
    BY <2>1, ElementOfSeq DEF PagesLeft
  <2>3. i \in 1..Len(ring[p]) /\ i - 1 \in 1..Len(ring[p])
    BY <2>1
  <2> QED BY <2>1, <2>2, <2>3 DEF Sorted
<1> QED BY <1>1, <1>2, <1>3 DEF SummariesExact

\* ... and of the types.
LEMMA TypesFromSound ==
    ASSUME NodesSound
    PROVE  /\ heap \subseteq Nodes /\ last \in 0..MaxIndex - 1
           /\ current \in 0..max /\ allocated \in Nat
           /\ \A n \in heap : used[n] <= Capacity(n)
           /\ ring \in [Pools -> Seq(heap)]
<1>1. AllocatorTyped /\ RingsApart /\ RoomSound
  BY DEF NodesSound, AllocatorSound
<1>2. allocated \in Nat
  BY <1>1, PagesAre DEF AllocatorTyped
<1>3. \A p \in Pools : ring[p] \in Seq(heap)
  <2> SUFFICES ASSUME NEW p \in Pools PROVE ring[p] \in Seq(heap)
    OBVIOUS
  <2>1. ring[p] \in Seq(Nodes) /\ \A i \in 1..Len(ring[p]) : ring[p][i] \in heap
    BY <1>1, ListsIs DEF RingsApart
  <2> QED BY <2>1, InSeq
<1> QED BY <1>1, <1>2, <1>3 DEF AllocatorTyped, RoomSound, RingsApart

\* It holds at the beginning.
LEMMA NodesInit == Init => NodesSound /\ Exists(Global) /\ \A p \in Pools : p # Global => ~Exists(p)
<1> SUFFICES ASSUME Init PROVE NodesSound /\ Exists(Global) /\ \A p \in Pools : p # Global => ~Exists(p)
  OBVIOUS
<1>1. PICK n \in Nodes :
        /\ heap = {n} /\ index = [m \in Nodes |-> IF m = n THEN 1 ELSE 0]
        /\ ring = [p \in Pools |-> IF p = Global THEN <<n>> ELSE <<>>]
        /\ self = [p \in Pools |-> IF p = Global THEN n ELSE NULL]
        /\ used = [m \in Nodes |-> IF m = n THEN Header + PoolSize ELSE Header]
  BY DEF Init
<1>2. /\ allocated = 2
      /\ buf = [i \in 0..MaxIndex - 1 |-> <<>>] /\ last = 0
      /\ max \in Nat /\ current = max
      /\ freeIndex = [m \in Nodes |-> 0] /\ making = [t \in Threads |-> <<>>] /\ deleted = FALSE
  BY AllocatorAssumption DEF Init
<1>3. MaxIndex \in Nat \ {0, 1} /\ Header \in Nat /\ Header + PoolSize \in Nat /\ Global \in Pools
  BY AllocatorAssumption, PoolAssumption
<1>4. Numbered(index)
  BY <1>1 DEF Numbered
<1>5. BucketsOf(buf, heap) /\ BucketsSound(buf, heap, index) /\ Kept = {}
  <2>1. \A i \in 0..MaxIndex - 1 : buf[i] = <<>> /\ buf[i] \in Seq(heap) /\ Len(buf[i]) = 0
    BY <1>2
  <2>2. BucketsOf(buf, heap)
    BY <1>2, <2>1 DEF BucketsOf
  <2>3. BucketsSound(buf, heap, index)
    BY <2>1, <2>2 DEF BucketsSound
  <2>4. \A m : m \notin Kept
    BY <2>1, <2>2, KeptIs, InBucketsIs
  <2> QED BY <2>2, <2>3, <2>4
<1>6. allocated = PagesIn(index, heap)
  <2>1. Cardinality(Sheets(index, {n})) = index[n] + 1
    BY <1>4, SheetsOfOne DEF Numbered
  <2> QED BY <1>1, <1>2, <2>1 DEF PagesIn
<1>7. AllocatorTyped
  BY <1>1, <1>2, <1>3, <1>4, <1>5, <1>6 DEF AllocatorTyped
<1>8. AllocatorExact
  <2>1. LastIs(buf, last)
    BY <1>2, <1>3 DEF LastIs
  <2>2. Sheets(index, {}) = {}
    BY DEF Sheets
  <2>3. PagesIn(index, {}) = 0
    BY <2>2, FS_EmptySet DEF PagesIn
  <2>4. InBuckets(buf) = {}
    BY <1>5, KeptIs
  <2>5. PagesIn(index, InBuckets(buf)) + current = max
    <3>1. PagesIn(index, InBuckets(buf)) = 0
      BY <2>3, <2>4
    <3>2. current = max /\ max \in Nat
      BY <1>2
    <3> QED BY <3>1, <3>2
  <2>6. RoomIs(buf, current, index, max)
    BY <2>5 DEF RoomIs
  <2> QED BY <2>1, <2>6 DEF AllocatorExact
<1>9. AllocatorSound
  BY <1>7, <1>8 DEF AllocatorSound
<1>10. ring[Global] = <<n>> /\ \A p \in Pools : p # Global => ring[p] = <<>>
  BY <1>1, <1>3
<1>11. Lists(<<n>>, Nodes, {n}) /\ Lists(<<>>, Nodes, {})
  <2>1. Lists(<<>>, Nodes, {})
    BY ListsEmpty
  <2>2. Lists(<<n>> \o <<>>, Nodes, Plus({}, n))
    BY <2>1, ListsCons
  <2>3. <<n>> \o <<>> = <<n>> /\ Plus({}, n) = {n}
    BY DEF Plus
  <2> QED BY <2>1, <2>2, <2>3
<1>12. In(Global) = {n} /\ \A p \in Pools : p # Global => In(p) = {}
  BY <1>10, <1>11 DEF In, Lists
<1>13. Exists(Global) /\ \A p \in Pools : p # Global => ~Exists(p)
  <2>1. <<n>> # <<>>
    OBVIOUS
  <2> QED BY <1>10, <2>1 DEF Exists
<1>14. RingsApart
  <2>1. \A p \in Pools : Lists(ring[p], Nodes, In(p))
    BY <1>10, <1>11, <1>12
  <2>2. DOMAIN ring = Pools /\ ring = [p \in Pools |-> ring[p]]
    BY <1>1
  <2> QED BY <1>1, <1>5, <1>12, <2>1, <2>2 DEF RingsApart
<1>15. HandsApart
  BY <1>2 DEF HandsApart
<1>16. NoneLost
  BY <1>1, <1>3, <1>12 DEF NoneLost
<1>17. RoomSound
  <2>1. used \in [Nodes -> Nat] /\ freeIndex \in [Nodes -> Int]
    BY <1>1, <1>2, <1>3
  <2>2. Header + PoolSize <= Capacity(n)
    BY <1>1, <1>7, TwoPages
  <2> QED BY <1>1, <1>3, <1>12, <2>1, <2>2 DEF RoomSound
<1>18. OrderSound
  BY <1>10, SortedShort DEF OrderSound
<1>19. SelfSound
  BY <1>1, <1>3, <1>12, <1>13 DEF SelfSound
<1> QED BY <1>9, <1>13, <1>14, <1>15, <1>16, <1>17, <1>18, <1>19 DEF NodesSound

===============================================================================
