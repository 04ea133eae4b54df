-------------------------- MODULE PriorityQueue_proof --------------------------
(***************************************************************************)
(* For every number of threads, priorities, nodes and blocks: no node of a *)
(* PriorityQueue is ever in two places, no block is deleted under a node   *)
(* in use, and the linked nodes implement the queue of PriorityQueueSpec.  *)
(*                                                                         *)
(* The invariant says that the links from _queue.first run through some    *)
(* list q of nodes and those from _free.first through some list f.  Chain, *)
(* the model's own walk over the links, is shown to find such a list; then *)
(* each step is argued about on the lists.                                 *)
(***************************************************************************)
EXTENDS PriorityQueue, PriorityList_proof, WellFoundedInduction

-------------------------------------------------------------------------------
\* Numbers.

\* A set of natural numbers has a least one.
LEMMA LeastNatural ==
    ASSUME NEW S, S \subseteq Nat, S # {}
    PROVE  Min(S) \in S /\ \A y \in S : Min(S) <= y
<1>1. PICK x \in S : \A y \in S : ~(<<y, x>> \in OpToRel(<, Nat))
  BY NatLessThanWellFounded, WFMin
<1>2. \A y \in S : x <= y
  <2> SUFFICES ASSUME NEW y \in S, ~(x <= y) PROVE FALSE
    OBVIOUS
  <2>1. x \in Nat /\ y \in Nat /\ y < x
    OBVIOUS
  <2>2. <<y, x>> \in OpToRel(<, Nat)
    BY <2>1 DEF OpToRel
  <2> QED BY <1>1, <2>2
<1> QED BY <1>2 DEF Min

\* What fails for some natural number fails for a least one.
LEMMA LeastFailure ==
    ASSUME NEW S, S \subseteq Nat, \A n \in Nat : (\A k \in 0..n - 1 : k \in S) => n \in S
    PROVE  \A n \in Nat : n \in S
<1> DEFINE B == Nat \ S
<1> SUFFICES ASSUME B # {} PROVE FALSE
  OBVIOUS
<1>1. Min(B) \in B /\ \A y \in B : Min(B) <= y
  BY LeastNatural
<1>2. \A k \in 0..Min(B) - 1 : k \in S
  BY <1>1
<1> QED BY <1>1, <1>2

\* There are n numbers up to n.
LEMMA UpToFinite ==
    ASSUME NEW n \in Nat
    PROVE  IsFiniteSet(1..n) /\ Cardinality(1..n) = n
<1>1. 1 \in Int /\ n \in Int
  OBVIOUS
<1>2. IsFiniteSet(1..n) /\ Cardinality(1..n) = IF 1 > n THEN 0 ELSE n - 1 + 1
  BY <1>1, FS_Interval, Zenon
<1> QED BY <1>2

\* A function on the numbers up to n is a list of length n.
LEMMA FunctionIsList ==
    ASSUME NEW S, NEW n \in Nat, NEW s \in [1..n -> S]
    PROVE  s \in Seq(S) /\ Len(s) = n
<1>1. s \in Seq(S)
  BY SeqDef
<1> QED BY <1>1, LenProperties

\* Where the places of a list that are kept go: in ascending order, all of them.
Ascending(e, K) ==
    /\ e \in Seq(K)
    /\ \A i, j \in 1..Len(e) : i < j => e[i] < e[j]
    /\ \A k \in K : \E i \in 1..Len(e) : e[i] = k

\* Every set of numbers up to n can be listed in ascending order.
LEMMA AscendingExists ==
    \A n \in Nat : \A K \in SUBSET (1..n) : \E e : Ascending(e, K)
<1> DEFINE S == {n \in Nat : \A K \in SUBSET (1..n) : \E e : Ascending(e, K)}
<1>1. ASSUME NEW n \in Nat, \A k \in 0..n - 1 : k \in S PROVE n \in S
  <2> SUFFICES ASSUME NEW K \in SUBSET (1..n) PROVE \E e : Ascending(e, K)
    OBVIOUS
  <2>1. CASE n = 0
    <3>1. K = {}
      BY <2>1
    <3>2. Ascending(<<>>, K)
      BY <3>1 DEF Ascending
    <3> QED BY <3>2
  <2>2. CASE n > 0 /\ n \notin K
    <3>1. n - 1 \in S /\ K \in SUBSET (1..n - 1)
      BY <1>1, <2>2
    <3> QED BY <3>1
  <2>3. CASE n > 0 /\ n \in K
    <3>1. n - 1 \in S /\ K \ {n} \in SUBSET (1..n - 1)
      BY <1>1, <2>3
    <3>2. PICK d : Ascending(d, K \ {n})
      BY <3>1
    <3> DEFINE e == Append(d, n)
    <3>3. d \in Seq(K) /\ Len(d) \in Nat /\ \A i \in 1..Len(d) : d[i] \in K \ {n}
      BY <3>2, SeqMonotonic, ElementOfSeq, LenProperties DEF Ascending
    <3>4. e \in Seq(K) /\ Len(e) = Len(d) + 1
          /\ \A i \in 1..Len(d) : e[i] = d[i]
          /\ e[Len(d) + 1] = n
      BY <2>3, <3>3, AppendProperties
    <3>5. ASSUME NEW i \in 1..Len(e), NEW j \in 1..Len(e), i < j PROVE e[i] < e[j]
      <4>1. CASE j = Len(e)
        <5>1. i \in 1..Len(d) /\ e[i] = d[i] /\ e[j] = n
          BY <3>3, <3>4, <3>5, <4>1
        <5>2. d[i] \in 1..n - 1
          BY <3>1, <3>3, <5>1
        <5> QED BY <5>1, <5>2
      <4>2. CASE j # Len(e)
        BY <3>2, <3>3, <3>4, <3>5, <4>2 DEF Ascending
      <4> QED BY <4>1, <4>2
    <3>6. ASSUME NEW k \in K PROVE \E i \in 1..Len(e) : e[i] = k
      <4>1. CASE k = n
        BY <3>3, <3>4, <4>1
      <4>2. CASE k # n
        BY <3>2, <3>3, <3>4, <4>2 DEF Ascending
      <4> QED BY <4>1, <4>2
    <3> HIDE DEF e
    <3>7. Ascending(e, K)
      BY <3>4, <3>5, <3>6 DEF Ascending
    <3> QED BY <3>7
  <2> QED BY <2>1, <2>2, <2>3
<1> HIDE DEF S
<1>2. \A n \in Nat : n \in S
  <2>1. S \subseteq Nat
    BY DEF S
  <2> QED BY <1>1, <2>1, LeastFailure
<1> QED BY <1>2 DEF S

-------------------------------------------------------------------------------
\* Chains of nodes.

\* What stands behind the i-th node of a list.
Behind(c, i) == IF i = Len(c) THEN NULL ELSE c[i + 1]

\* The list c is what the links run through from n.
IsChain(next, n, c) ==
    /\ c \in Seq(Node)
    /\ \A i, j \in 1..Len(c) : c[i] = c[j] => i = j
    /\ n = Behind(c, 0)
    /\ \A i \in 1..Len(c) : next[c[i]] = Behind(c, i)

\* There are finitely many nodes, and NULL is none of them.
LEMMA NodesFinite ==
    /\ IsFiniteSet(Node) /\ Cardinality(Node) \in Nat
    /\ \A b \in Blocks : IsFiniteSet(NodesOf(b))
    /\ NULL \notin Node
<1>1. IsFiniteSet({NULL}) /\ IsFiniteSet(1..Preallocated) /\ IsFiniteSet(1..StorageNodes)
  BY PQAssumption, FS_Singleton, UpToFinite
<1>2. IsFiniteSet(Preallocs)
  BY <1>1, FS_Product DEF Preallocs
<1>3. \A b \in Blocks : IsFiniteSet(NodesOf(b))
  BY <1>1, FS_Singleton, FS_Product DEF NodesOf
<1>4. UNION {NodesOf(b) : b \in Blocks} = Blocks \X (1..StorageNodes)
  BY DEF NodesOf
<1>5. IsFiniteSet(Blocks \X (1..StorageNodes))
  BY <1>1, PQAssumption, FS_Product
<1>6. IsFiniteSet(Node)
  BY <1>2, <1>4, <1>5, FS_Union DEF Node
<1> QED BY <1>3, <1>6, FS_CardinalityType, PQAssumption

\* A list of different nodes is no longer than there are nodes.
LEMMA ChainLength ==
    ASSUME NEW c \in Seq(Node), \A i, j \in 1..Len(c) : c[i] = c[j] => i = j
    PROVE  Len(c) \in 0..Cardinality(Node)
<1>1. Len(c) \in Nat /\ c \in [1..Len(c) -> Node]
  BY LenProperties
<1>2. c \in Injection(1..Len(c), Node)
  BY <1>1 DEF Injection, IsInjective
<1>3. Cardinality(1..Len(c)) <= Cardinality(Node)
  BY <1>2, NodesFinite, FS_Injection
<1>4. Cardinality(1..Len(c)) = Len(c)
  BY <1>1, UpToFinite
<1> QED BY <1>1, <1>3, <1>4

\* Chain finds the list the links run through.
LEMMA ChainIs ==
    ASSUME NEW next, NEW n, NEW c, IsChain(next, n, c)
    PROVE  Chain(next, n) = c
<1> DEFINE N == Cardinality(Node) + 1
           after == [m \in Node \cup {NULL} |-> IF m = NULL THEN NULL ELSE next[m]]
           at[k \in 1..N] == IF k = 1 THEN n ELSE after[at[k - 1]]
           g == [k \in 1..N |-> IF k <= Len(c) THEN c[k] ELSE NULL]
<1>1. /\ c \in Seq(Node) /\ Len(c) \in Nat /\ Len(c) < N /\ N \in Nat
      /\ \A i \in 1..Len(c) : c[i] \in Node /\ c[i] # NULL
  BY ChainLength, NodesFinite, LenProperties, ElementOfSeq DEF IsChain
<1>2. \A i \in 1..Len(c) : after[c[i]] = Behind(c, i)
  BY <1>1 DEF IsChain
<1>3. after[NULL] = NULL
  OBVIOUS
<1>4. \A k \in 1..N : g[k] = IF k = 1 THEN n ELSE after[g[k - 1]]
  <2> SUFFICES ASSUME NEW k \in 1..N
               PROVE  g[k] = IF k = 1 THEN n ELSE after[g[k - 1]]
    OBVIOUS
  <2>1. CASE k = 1
    BY <1>1, <2>1 DEF IsChain, Behind
  <2>2. CASE k # 1 /\ k - 1 <= Len(c)
    <3>1. k - 1 \in 1..Len(c) /\ g[k - 1] = c[k - 1]
      BY <1>1, <2>2
    <3>2. after[g[k - 1]] = Behind(c, k - 1)
      BY <1>2, <3>1
    <3>3. g[k] = Behind(c, k - 1)
      BY <1>1, <3>1 DEF Behind
    <3> QED BY <2>2, <3>2, <3>3
  <2>3. CASE k # 1 /\ ~(k - 1 <= Len(c))
    <3>1. g[k - 1] = NULL /\ g[k] = NULL
      BY <1>1, <2>3
    <3> QED BY <1>3, <2>3, <3>1
  <2> QED BY <2>1, <2>2, <2>3
<1> HIDE DEF after
<1>5. g = [k \in 1..N |-> IF k = 1 THEN n ELSE after[g[k - 1]]]
  BY <1>4
<1>6. at = [k \in 1..N |-> IF k = 1 THEN n ELSE after[at[k - 1]]]
  <2>1. \E f : f = [k \in 1..N |-> IF k = 1 THEN n ELSE after[f[k - 1]]]
    BY <1>5
  <2> HIDE DEF g
  <2> QED BY <2>1
<1> HIDE DEF at, g
<1>7. at = g
  <2> DEFINE S == {k \in Nat : k \in 1..N => at[k] = g[k]}
  <2>1. ASSUME NEW k \in Nat, \A j \in 0..k - 1 : j \in S PROVE k \in S
    <3> SUFFICES ASSUME k \in 1..N PROVE at[k] = g[k]
      OBVIOUS
    <3>1. CASE k = 1
      BY <1>4, <1>6, <3>1
    <3>2. CASE k # 1
      <4>1. at[k - 1] = g[k - 1]
        BY <1>1, <2>1, <3>2
      <4>2. g[k] = after[g[k - 1]]
        BY <1>4, <3>2
      <4>3. at[k] = after[at[k - 1]]
        BY <1>6, <3>2
      <4> QED BY <4>1, <4>2, <4>3
    <3> QED BY <3>1, <3>2
  <2> HIDE DEF S
  <2>2. S \subseteq Nat
    BY DEF S
  <2>3. \A k \in Nat : k \in S
    BY <2>1, <2>2, LeastFailure
  <2>4. \A k \in 1..N : at[k] = g[k]
    BY <1>1, <2>3 DEF S
  <2> QED BY <1>5, <1>6, <2>4
<1>8. {j \in DOMAIN at : at[j] # NULL} = 1..Len(c)
  <2>1. DOMAIN at = 1..N
    BY <1>6
  <2>2. \A k \in 1..N : at[k] = IF k <= Len(c) THEN c[k] ELSE NULL
    BY <1>7 DEF g
  <2> QED BY <1>1, <2>1, <2>2
<1>9. Cardinality(1..Len(c)) = Len(c)
  BY <1>1, UpToFinite
<1>10. [k \in 1..Len(c) |-> at[k]] = c
  <2>1. \A k \in 1..Len(c) : at[k] = c[k]
    BY <1>1, <1>7 DEF g
  <2> QED BY <1>1, <2>1, LenProperties
<1>11. Chain(next, n) = [k \in 1..Cardinality({j \in DOMAIN at : at[j] # NULL}) |-> at[k]]
  BY DEF Chain, at, after
<1> QED BY <1>8, <1>9, <1>10, <1>11

-------------------------------------------------------------------------------
\* Memory.

\* What the links, the ends of the free list and the blocks' counters may be.
MemType(m) ==
    m \in [next : [Node -> Node \cup {NULL}],
           first : Node \cup {NULL}, last : Node \cup {NULL},
           used : [Blocks -> 0..StorageNodes], live : SUBSET Blocks]

InList(n, c) == \E i \in 1..Len(c) : c[i] = n

\* The nodes are divided between the free list c and those in use, U, but for those
\* that are behind a lost end of the list: _free.last is the end of c or no longer
\* of any use.  The blocks of all of them exist and count those in use.
Divided(m, U, c) ==
    /\ MemType(m) /\ U \subseteq Node
    /\ IsChain(m.next, m.first, c)
    /\ \A i \in 1..Len(c) : c[i] \notin U /\ Alive(m, c[i])
    /\ \A n \in U : Alive(m, n)
    /\ m.last = NULL => c = <<>>
    /\ m.last \in U \/ InList(m.last, c) => c # <<>> /\ m.last = c[Len(c)]
    /\ \A b \in m.live : m.used[b] = Cardinality(U \cap NodesOf(b))
    /\ \A n \in Preallocs : n \in U \/ InList(n, c)

\* ... and no block is kept that has none in use.
MemSound(m, U, c) == Divided(m, U, c) /\ \A b \in m.live : m.used[b] > 0

\* A node is in its block, and a block holds StorageNodes of them.
LEMMA NodesInBlocks ==
    /\ \A n \in Node : BlockOf(n) \in Blocks \cup {NULL}
    /\ \A n \in Node : BlockOf(n) = NULL <=> n \in Preallocs
    /\ \A n \in Node, b \in Blocks : n \in NodesOf(b) <=> BlockOf(n) = b
    /\ \A b \in Blocks : Cardinality(NodesOf(b)) = StorageNodes
<1>1. ASSUME NEW n \in Node
      PROVE  \/ n \in Preallocs /\ BlockOf(n) = NULL
             \/ \E b \in Blocks : n \in NodesOf(b) /\ BlockOf(n) = b
  BY DEF Node, Preallocs, NodesOf, BlockOf
<1>2. ASSUME NEW b \in Blocks, NEW n \in NodesOf(b) PROVE BlockOf(n) = b
  BY DEF NodesOf, BlockOf
<1>3. ASSUME NEW n \in Preallocs PROVE BlockOf(n) = NULL
  BY DEF Preallocs, BlockOf
<1>4. ASSUME NEW b \in Blocks PROVE Cardinality(NodesOf(b)) = StorageNodes
  <2>1. /\ IsFiniteSet({b}) /\ Cardinality({b}) = 1
        /\ IsFiniteSet(1..StorageNodes) /\ Cardinality(1..StorageNodes) = StorageNodes
    BY PQAssumption, FS_Singleton, UpToFinite
  <2>2. Cardinality({b} \X (1..StorageNodes)) = Cardinality({b}) * Cardinality(1..StorageNodes)
    BY <2>1, FS_Product
  <2> QED BY <2>1, <2>2, PQAssumption DEF NodesOf
<1>5. NULL \notin Blocks
  BY PQAssumption
<1> QED BY <1>1, <1>2, <1>3, <1>4, <1>5

\* Taking a node into use counts in its own block only, and no block has more nodes
\* in use than it has.
LEMMA CountTaken ==
    ASSUME NEW U \in SUBSET Node, NEW n \in Node \ U, NEW b \in Blocks
    PROVE  /\ Cardinality((U \cup {n}) \cap NodesOf(b))
                = Cardinality(U \cap NodesOf(b)) + IF BlockOf(n) = b THEN 1 ELSE 0
           /\ Cardinality(U \cap NodesOf(b)) \in 0..StorageNodes
           /\ BlockOf(n) = b => Cardinality(U \cap NodesOf(b)) \in 0..StorageNodes - 1
<1> DEFINE V == U \cap NodesOf(b)
<1>1. IsFiniteSet(V) /\ Cardinality(V) \in Nat /\ Cardinality(V) <= StorageNodes
  BY NodesFinite, NodesInBlocks, FS_Subset, FS_CardinalityType
<1>2. CASE BlockOf(n) = b
  <2>1. n \in NodesOf(b) /\ (U \cup {n}) \cap NodesOf(b) = V \cup {n} /\ n \notin V
    BY <1>2, NodesInBlocks
  <2>2. IsFiniteSet(V \cup {n}) /\ Cardinality(V \cup {n}) = Cardinality(V) + 1
    BY <1>1, <2>1, FS_AddElement
  <2>3. Cardinality(V \cup {n}) <= StorageNodes
    BY <2>1, NodesFinite, NodesInBlocks, FS_Subset
  <2> QED BY <1>1, <1>2, <2>1, <2>2, <2>3, PQAssumption
<1>3. CASE BlockOf(n) # b
  <2>1. (U \cup {n}) \cap NodesOf(b) = V
    BY <1>3, NodesInBlocks
  <2>2. Cardinality((U \cup {n}) \cap NodesOf(b)) = Cardinality(V)
    BY <2>1
  <2>3. Cardinality(V) \in 0..StorageNodes /\ Cardinality(V) = Cardinality(V) + 0
    BY <1>1, PQAssumption
  <2> HIDE DEF V
  <2> QED BY <1>3, <2>2, <2>3 DEF V
<1> QED BY <1>2, <1>3

-------------------------------------------------------------------------------
\* Chains that gain and lose nodes.

\* A list that the links run through without its head.
LEMMA ChainTail ==
    ASSUME NEW next, NEW n, NEW c, IsChain(next, n, c), c # <<>>, NEW next2,
           \A i \in 2..Len(c) : next2[c[i]] = next[c[i]]
    PROVE  /\ n = c[1] /\ n \in Node /\ InList(n, c)
           /\ IsChain(next2, next[n], Tail(c))
           /\ Len(c) \in Nat \ {0} /\ Len(Tail(c)) = Len(c) - 1
           /\ \A i \in 1..Len(c) - 1 : Tail(c)[i] = c[i + 1]
           /\ \A x : InList(x, Tail(c)) <=> InList(x, c) /\ x # n
<1>1. c \in Seq(Node) /\ Len(c) \in Nat \ {0} /\ \A i \in 1..Len(c) : c[i] \in Node
  BY HeadIsFirst, ElementOfSeq DEF IsChain
<1>2. n = c[1] /\ n \in Node /\ InList(n, c)
  BY <1>1 DEF IsChain, Behind, InList
<1> DEFINE d == Tail(c)
<1>3. d \in Seq(Node) /\ Len(d) = Len(c) - 1 /\ \A i \in 1..Len(c) - 1 : d[i] = c[i + 1]
  BY <1>1, HeadTailProperties
<1> HIDE DEF d
<1>4. \A i, j \in 1..Len(d) : d[i] = d[j] => i = j
  <2> SUFFICES ASSUME NEW i \in 1..Len(d), NEW j \in 1..Len(d), d[i] = d[j] PROVE i = j
    OBVIOUS
  <2>1. i + 1 \in 1..Len(c) /\ j + 1 \in 1..Len(c) /\ c[i + 1] = c[j + 1]
    BY <1>1, <1>3
  <2> QED BY <2>1 DEF IsChain
<1>5. next[n] = Behind(d, 0)
  BY <1>1, <1>2, <1>3 DEF IsChain, Behind
<1>6. ASSUME NEW i \in 1..Len(d) PROVE next2[d[i]] = Behind(d, i)
  <2>1. i + 1 \in 2..Len(c) /\ i + 1 \in 1..Len(c) /\ d[i] = c[i + 1]
    BY <1>1, <1>3
  <2>2. next2[d[i]] = Behind(c, i + 1)
    BY <2>1 DEF IsChain
  <2>3. Behind(c, i + 1) = Behind(d, i)
    BY <1>1, <1>3, <2>1 DEF Behind
  <2> QED BY <2>2, <2>3
<1>7. ASSUME NEW x PROVE InList(x, d) <=> InList(x, c) /\ x # n
  <2>1. ASSUME NEW i \in 1..Len(d), d[i] = x PROVE InList(x, c) /\ x # n
    <3>1. i + 1 \in 1..Len(c) /\ 1 \in 1..Len(c) /\ c[i + 1] = x /\ i + 1 # 1
      BY <1>1, <1>3, <2>1
    <3> QED BY <1>2, <3>1 DEF IsChain, InList
  <2>2. ASSUME NEW i \in 1..Len(c), c[i] = x, x # n PROVE InList(x, d)
    <3>1. i - 1 \in 1..Len(d) /\ d[i - 1] = x
      BY <1>1, <1>2, <1>3, <2>2
    <3> QED BY <3>1 DEF InList
  <2> QED BY <2>1, <2>2 DEF InList
<1>8. IsChain(next2, next[n], d)
  BY <1>3, <1>4, <1>5, <1>6 DEF IsChain
<1> QED BY <1>1, <1>2, <1>3, <1>7, <1>8 DEF d

\* A list that the links run through with a node linked into it.
LEMMA ChainInsert ==
    ASSUME NEW next, NEW first, NEW c, IsChain(next, first, c),
           NEW n \in Node, ~InList(n, c), NEW k \in 1..Len(c) + 1,
           NEW next2, next2[n] = Behind(c, k - 1),
           \A i \in 1..Len(c) : next2[c[i]] = IF i = k - 1 THEN n ELSE next[c[i]]
    PROVE  LET d == InsertedAt(c, k, n)
           IN  /\ IsChain(next2, IF k = 1 THEN n ELSE first, d)
               /\ Len(d) = Len(c) + 1 /\ d # <<>>
               /\ \A x : InList(x, d) <=> x = n \/ InList(x, c)
               /\ d[Len(d)] = IF k = Len(c) + 1 THEN n ELSE c[Len(c)]
<1> DEFINE d == InsertedAt(c, k, n)
<1>1. c \in Seq(Node) /\ Len(c) \in Nat /\ \A i \in 1..Len(c) : c[i] \in Node
  BY LenProperties, ElementOfSeq DEF IsChain
<1>2. /\ d \in Seq(Node) /\ Len(d) = Len(c) + 1
      /\ \A i \in 1..Len(d) : d[i] = IF i < k THEN c[i] ELSE IF i = k THEN n ELSE c[i - 1]
  BY <1>1, InsertedAtType DEF InsertedAt
<1> HIDE DEF d
<1>3. \A i \in 1..Len(c) : c[i] # n
  BY DEF InList
<1>4. \A i, j \in 1..Len(d) : d[i] = d[j] => i = j
  <2> SUFFICES ASSUME NEW i \in 1..Len(d), NEW j \in 1..Len(d), d[i] = d[j] PROVE i = j
    OBVIOUS
  <2> DEFINE was(l) == IF l < k THEN l ELSE l - 1
  <2>1. ASSUME NEW l \in 1..Len(d), l # k
        PROVE  was(l) \in 1..Len(c) /\ d[l] = c[was(l)] /\ d[l] # n
    BY <1>1, <1>2, <1>3, <2>1
  <2>2. d[k] = n
    BY <1>1, <1>2
  <2>3. CASE i = k \/ j = k
    BY <2>1, <2>2, <2>3
  <2>4. CASE i # k /\ j # k
    <3>1. was(i) = was(j)
      <4>1. /\ was(i) \in 1..Len(c) /\ d[i] = c[was(i)]
            /\ was(j) \in 1..Len(c) /\ d[j] = c[was(j)]
        BY <2>1, <2>4
      <4>2. \A x, y \in 1..Len(c) : c[x] = c[y] => x = y
        BY DEF IsChain
      <4> HIDE DEF was
      <4>3. c[was(i)] = c[was(j)]
        BY <4>1
      <4> QED BY <4>1, <4>2, <4>3, Zenon
    <3> QED BY <1>1, <1>2, <2>4, <3>1
  <2> QED BY <2>3, <2>4
<1>5. (IF k = 1 THEN n ELSE first) = Behind(d, 0)
  BY <1>1, <1>2 DEF IsChain, Behind
<1>6. ASSUME NEW i \in 1..Len(d) PROVE next2[d[i]] = Behind(d, i)
  <2>1. CASE i = k
    <3>1. d[i] = n /\ Behind(d, i) = Behind(c, k - 1)
      BY <1>1, <1>2, <2>1 DEF Behind
    <3> QED BY <3>1
  <2>2. CASE i = k - 1
    <3>1. i \in 1..Len(c) /\ d[i] = c[i] /\ Behind(d, i) = n
      BY <1>1, <1>2, <2>2 DEF Behind
    <3> QED BY <2>2, <3>1
  <2>3. CASE i < k - 1
    <3>1. i \in 1..Len(c) /\ d[i] = c[i] /\ Behind(d, i) = Behind(c, i)
      BY <1>1, <1>2, <2>3 DEF Behind
    <3> QED BY <2>3, <3>1 DEF IsChain
  <2>4. CASE i > k
    <3>1. i - 1 \in 1..Len(c) /\ i - 1 # k - 1 /\ d[i] = c[i - 1]
      BY <1>1, <1>2, <2>4
    <3>2. CASE i = Len(d)
      <4>1. Behind(d, i) = NULL /\ Behind(c, i - 1) = NULL
        BY <1>1, <1>2, <3>2 DEF Behind
      <4> QED BY <3>1, <4>1 DEF IsChain
    <3>3. CASE i # Len(d)
      <4>0. /\ i + 1 \in 1..Len(d) /\ ~(i + 1 < k) /\ i + 1 # k /\ (i + 1) - 1 = i
            /\ i - 1 # Len(c) /\ (i - 1) + 1 = i
        BY <1>1, <1>2, <2>4, <3>3
      <4>1. d[i + 1] = c[i]
        BY <1>2, <4>0
      <4>2. Behind(d, i) = c[i] /\ Behind(c, i - 1) = c[i]
        BY <3>3, <4>0, <4>1 DEF Behind
      <4> QED BY <3>1, <4>2 DEF IsChain
    <3> QED BY <3>2, <3>3
  <2> QED BY <1>1, <1>2, <2>1, <2>2, <2>3, <2>4
<1>7. ASSUME NEW x PROVE InList(x, d) <=> x = n \/ InList(x, c)
  <2>1. ASSUME NEW i \in 1..Len(d), d[i] = x, x # n PROVE InList(x, c)
    <3>1. CASE i < k
      BY <1>1, <1>2, <2>1, <3>1 DEF InList
    <3>2. CASE i > k
      <4>1. i - 1 \in 1..Len(c) /\ c[i - 1] = x
        BY <1>1, <1>2, <2>1, <3>2
      <4> QED BY <4>1 DEF InList
    <3> QED BY <1>1, <1>2, <2>1, <3>1, <3>2
  <2>2. ASSUME NEW i \in 1..Len(c), c[i] = x PROVE InList(x, d)
    <3>1. CASE i < k
      <4>1. i \in 1..Len(d) /\ d[i] = x
        BY <1>1, <1>2, <2>2, <3>1
      <4> QED BY <4>1 DEF InList
    <3>2. CASE ~(i < k)
      <4>1. i + 1 \in 1..Len(d) /\ d[i + 1] = x
        BY <1>1, <1>2, <2>2, <3>2
      <4> QED BY <4>1 DEF InList
    <3> QED BY <3>1, <3>2
  <2>3. InList(n, d)
    BY <1>1, <1>2 DEF InList
  <2> QED BY <2>1, <2>2, <2>3 DEF InList
<1>8. d[Len(d)] = IF k = Len(c) + 1 THEN n ELSE c[Len(c)]
  BY <1>1, <1>2
<1>9. d # <<>>
  BY <1>1, <1>2, EmptySeq
<1>10. IsChain(next2, IF k = 1 THEN n ELSE first, d)
  BY <1>2, <1>4, <1>5, <1>6 DEF IsChain
<1> QED BY <1>2, <1>7, <1>8, <1>9, <1>10 DEF d

-------------------------------------------------------------------------------
\* allocateNode.

\* What a free list that is not empty loses: its head.
LEMMA AllocateListed ==
    ASSUME NEW m, NEW U, NEW c, MemSound(m, U, c), NEW b, m.first # NULL
    PROVE  LET n == AllocatedNode(m, b)
               r == AllocateNode(m, b)
           IN  /\ n \in Node \ U
               /\ \A x \in U : r.next[x] = m.next[x]
               /\ MemSound(r, U \cup {n}, Tail(c))
<1> DEFINE n == m.first
           r == AllocateNode(m, b)
           d == Tail(c)
<1>1. /\ MemType(m) /\ U \subseteq Node /\ IsChain(m.next, n, c)
      /\ c \in Seq(Node) /\ Len(c) \in Nat
  BY LenProperties DEF MemSound, Divided, IsChain
<1>2. c # <<>>
  BY <1>1 DEF IsChain, Behind
<1>3. /\ r.next = [m.next EXCEPT ![n] = NULL]
      /\ r.last = IF m.first = m.last THEN NULL ELSE m.last
      /\ r.live = m.live
      /\ r.first = IF m.first = m.last THEN NULL ELSE m.next[n]
      /\ r.used = IF BlockOf(n) = NULL THEN m.used
                  ELSE [m.used EXCEPT ![BlockOf(n)] = @ + 1]
      /\ r = [next |-> r.next, first |-> r.first, last |-> r.last,
              used |-> r.used, live |-> r.live]
  BY <1>1 DEF AllocateNode, AllocatedNode, MemType
<1>4. n = AllocatedNode(m, b)
  BY DEF AllocatedNode
<1> HIDE DEF r
<1>5. \A i \in 2..Len(c) : r.next[c[i]] = m.next[c[i]]
  <2> SUFFICES ASSUME NEW i \in 2..Len(c) PROVE r.next[c[i]] = m.next[c[i]]
    OBVIOUS
  <2>1. n = c[1] /\ i \in 1..Len(c) /\ 1 \in 1..Len(c) /\ i # 1
    BY <1>1, <1>2, ChainTail
  <2>2. c[i] # n /\ c[i] \in Node
    BY <1>1, <2>1, ElementOfSeq DEF IsChain
  <2> QED BY <1>1, <1>3, <2>2 DEF MemType
<1>6. /\ n = c[1] /\ n \in Node /\ InList(n, c)
      /\ IsChain(r.next, m.next[n], d)
      /\ Len(c) \in Nat \ {0} /\ Len(d) = Len(c) - 1
      /\ \A i \in 1..Len(c) - 1 : d[i] = c[i + 1]
      /\ \A x : InList(x, d) <=> InList(x, c) /\ x # n
  BY <1>1, <1>2, <1>5, ChainTail
<1> HIDE DEF n, d
<1>7. n \notin U /\ Alive(m, n)
  BY <1>6 DEF MemSound, Divided
<1>8. \A x \in U : r.next[x] = m.next[x]
  BY <1>1, <1>3, <1>7 DEF MemType
<1>9. BlockOf(n) = NULL \/ BlockOf(n) \in m.live
  BY <1>7 DEF Alive
<1>10. \A x \in m.live : /\ m.used[x] > 0 /\ m.used[x] = Cardinality(U \cap NodesOf(x))
  BY DEF MemSound, Divided
<1>11. m.live \subseteq Blocks /\ m.used \in [Blocks -> 0..StorageNodes] /\ NULL \notin Blocks
       /\ m.next \in [Node -> Node \cup {NULL}] /\ m.last \in Node \cup {NULL}
  BY <1>1, PQAssumption DEF MemType
<1>12. ASSUME NEW x \in Blocks
       PROVE  r.used[x] = m.used[x] + IF BlockOf(n) = x THEN 1 ELSE 0
  BY <1>3, <1>9, <1>11
<1>13. r.used \in [Blocks -> 0..StorageNodes]
  <2>1. ASSUME BlockOf(n) # NULL PROVE m.used[BlockOf(n)] + 1 \in 0..StorageNodes
    <3>1. BlockOf(n) \in Blocks /\ m.used[BlockOf(n)] = Cardinality(U \cap NodesOf(BlockOf(n)))
      BY <1>9, <1>10, <1>11, <2>1
    <3>2. Cardinality(U \cap NodesOf(BlockOf(n))) \in 0..StorageNodes - 1
      BY <1>1, <1>6, <1>7, <3>1, CountTaken
    <3> QED BY <3>1, <3>2, PQAssumption
  <2> QED BY <1>3, <1>11, <2>1
<1>14. \A x \in r.live : /\ r.used[x] > 0
                         /\ r.used[x] = Cardinality((U \cup {n}) \cap NodesOf(x))
  <2> SUFFICES ASSUME NEW x \in m.live
               PROVE  /\ r.used[x] > 0
                      /\ r.used[x] = Cardinality((U \cup {n}) \cap NodesOf(x))
    BY <1>3
  <2>1. Cardinality((U \cup {n}) \cap NodesOf(x))
            = Cardinality(U \cap NodesOf(x)) + IF BlockOf(n) = x THEN 1 ELSE 0
    <3>1. U \in SUBSET Node /\ n \in Node \ U /\ x \in Blocks
      BY <1>1, <1>6, <1>7, <1>11
    <3> QED BY <3>1, CountTaken
  <2>2. m.used[x] > 0 /\ m.used[x] \in 0..StorageNodes
        /\ m.used[x] = Cardinality(U \cap NodesOf(x))
    BY <1>10, <1>11
  <2> QED BY <1>11, <1>12, <2>1, <2>2, PQAssumption
<1>15. m.last # NULL
  BY <1>2 DEF MemSound, Divided
<1>16. m.last = n => d = <<>> /\ m.next[n] = NULL
  <2> SUFFICES ASSUME m.last = n PROVE d = <<>> /\ m.next[n] = NULL
    OBVIOUS
  <2>1. c[Len(c)] = c[1]
    BY <1>6 DEF MemSound, Divided
  <2>2. Len(c) = 1
    BY <1>1, <1>6, <2>1 DEF IsChain
  <2>3. d = <<>> /\ Len(d) = 0
    BY <1>6, <2>2, EmptySeq DEF IsChain
  <2> QED BY <1>6, <2>3 DEF IsChain, Behind
<1>17. r.first = m.next[n]
  BY <1>3, <1>16 DEF n
<1>18. r.last = NULL => d = <<>>
  BY <1>3, <1>15, <1>16 DEF n
<1>19. ASSUME r.last \in U \cup {n} \/ InList(r.last, d) PROVE d # <<>> /\ r.last = d[Len(d)]
  <2>1. n # NULL
    BY <1>6, PQAssumption
  <2>2. m.last # n
    <3> SUFFICES ASSUME m.last = n PROVE FALSE
      OBVIOUS
    <3>1. r.last = NULL /\ d = <<>>
      BY <1>3, <1>16 DEF n
    <3>2. ~InList(r.last, d)
      BY <3>1 DEF InList
    <3> QED BY <1>1, <1>19, <2>1, <3>1, <3>2, PQAssumption
  <2>3. r.last = m.last
    BY <1>3, <2>2 DEF n
  <2>4. m.last \in U \/ InList(m.last, c)
    BY <1>6, <1>19, <2>2, <2>3
  <2>5. m.last = c[Len(c)]
    BY <2>4 DEF MemSound, Divided
  <2>6. Len(c) # 1
    BY <1>6, <2>2, <2>5
  <2>7. Len(d) \in 1..Len(c) - 1 /\ d[Len(d)] = c[Len(c)]
    BY <1>6, <2>6
  <2> QED BY <2>3, <2>5, <2>7
<1>20. MemType(r)
  <2>1. r.next \in [Node -> Node \cup {NULL}]
    BY <1>3, <1>11
  <2>2. r.first \in Node \cup {NULL}
    BY <1>6, <1>11, <1>17
  <2>3. r.last \in Node \cup {NULL} /\ r.live \in SUBSET Blocks
    BY <1>3, <1>11
  <2> QED BY <1>3, <1>13, <2>1, <2>2, <2>3 DEF MemType
<1>21. \A i \in 1..Len(d) : d[i] \notin U \cup {n} /\ Alive(r, d[i])
  <2> SUFFICES ASSUME NEW i \in 1..Len(d) PROVE d[i] \notin U \cup {n} /\ Alive(r, d[i])
    OBVIOUS
  <2>1. i + 1 \in 1..Len(c) /\ d[i] = c[i + 1] /\ InList(d[i], d)
    BY <1>6 DEF InList
  <2>2. d[i] # n
    BY <1>6, <2>1
  <2> QED BY <1>3, <2>1, <2>2 DEF MemSound, Divided, Alive
<1>22. \A x \in U \cup {n} : Alive(r, x)
  BY <1>3, <1>7 DEF MemSound, Divided, Alive
<1>23. \A x \in Preallocs : x \in U \cup {n} \/ InList(x, d)
  BY <1>6 DEF MemSound, Divided
<1>24. MemSound(r, U \cup {n}, d)
  <2>1. U \cup {n} \subseteq Node /\ IsChain(r.next, r.first, d)
    BY <1>1, <1>6, <1>17
  <2> QED BY <1>14, <1>18, <1>19, <1>20, <1>21, <1>22, <1>23, <2>1 DEF MemSound, Divided
<1>25. n \in Node \ U
  BY <1>6, <1>7
<1> QED BY <1>4, <1>8, <1>24, <1>25 DEF d, r

\* What an empty free list gains: the nodes of a new block but the first, unless the
\* end of the list is lost, which then takes them along.
LEMMA AllocateBlockSound ==
    ASSUME NEW m, NEW U, NEW c, MemSound(m, U, c), NEW b \in Blocks \ m.live, m.first = NULL
    PROVE  LET n == AllocatedNode(m, b)
               r == AllocateNode(m, b)
           IN  /\ n \in Node \ U
               /\ \A x \in U : r.next[x] = m.next[x]
               /\ \E d : MemSound(r, U \cup {n}, d)
<1> DEFINE n == <<b, 1>>
           r == AllocateNode(m, b)
           links == Linked(m.next, b, StorageNodes)
<1>1. /\ MemType(m) /\ U \subseteq Node /\ IsChain(m.next, NULL, c)
      /\ m.live \subseteq Blocks /\ m.used \in [Blocks -> 0..StorageNodes]
      /\ m.next \in [Node -> Node \cup {NULL}] /\ m.last \in Node \cup {NULL}
  BY DEF MemSound, Divided, MemType
<1>2. NULL \notin Blocks /\ NULL \notin Node /\ StorageNodes \in Nat \ {0, 1}
  BY PQAssumption
<1>3. c = <<>>
  <2>1. c \in Seq(Node) /\ Len(c) \in Nat
    BY <1>1, LenProperties DEF IsChain
  <2>2. Len(c) = 0
    <3> SUFFICES ASSUME Len(c) # 0 PROVE FALSE
      OBVIOUS
    <3>1. c[1] \in Node /\ c[1] = NULL
      BY <1>1, <2>1 DEF IsChain, Behind
    <3> QED BY <1>2, <3>1
  <2> QED BY <2>1, <2>2, EmptySeq
<1>4. ASSUME NEW i \in 1..StorageNodes
      PROVE  <<b, i>> \in Node /\ BlockOf(<<b, i>>) = b /\ <<b, i>> \notin U
             /\ <<b, i>> \notin Preallocs
  <2>1. <<b, i>> \in NodesOf(b)
    BY DEF NodesOf
  <2>2. <<b, i>> \in Node /\ BlockOf(<<b, i>>) = b
    BY <2>1 DEF Node, BlockOf
  <2>3. ~Alive(m, <<b, i>>)
    BY <1>2, <2>2 DEF Alive
  <2> QED BY <1>2, <2>2, <2>3, NodesInBlocks DEF MemSound, Divided
<1>5. n \in Node /\ n \notin U /\ BlockOf(n) = b /\ n = AllocatedNode(m, b)
  BY <1>2, <1>4 DEF AllocatedNode
<1>6. links \in [Node -> Node \cup {NULL}]
  <2> SUFFICES ASSUME NEW x \in Node
               PROVE  (IF BlockOf(x) # b THEN m.next[x]
                       ELSE IF x[2] = StorageNodes THEN NULL ELSE <<b, x[2] + 1>>)
                           \in Node \cup {NULL}
    BY DEF Linked
  <2>1. CASE BlockOf(x) # b
    BY <1>1, <2>1
  <2>2. CASE BlockOf(x) = b
    <3>1. x[2] \in 1..StorageNodes
      BY <2>2, NodesInBlocks DEF NodesOf
    <3>2. x[2] # StorageNodes => <<b, x[2] + 1>> \in Node
      BY <1>2, <1>4, <3>1
    <3> QED BY <2>2, <3>2
  <2> QED BY <2>1, <2>2
<1>7. /\ r.next = [(IF m.last # NULL THEN [links EXCEPT ![m.last] = <<b, 2>>] ELSE links)
                        EXCEPT ![n] = NULL]
      /\ r.first = IF m.last # NULL THEN NULL ELSE <<b, 2>>
      /\ r.last = <<b, StorageNodes>>
      /\ r.live = m.live \cup {b}
      /\ r.used = [[m.used EXCEPT ![b] = 0] EXCEPT ![b] = @ + 1]
      /\ r = [next |-> r.next, first |-> r.first, last |-> r.last,
              used |-> r.used, live |-> r.live]
  <2> DEFINE m1 == AllocateBlock(m, b)
             m2 == AppendRest(m1, b)
  <2>1. m1 = [next |-> links, first |-> NULL, last |-> m.last,
              used |-> [m.used EXCEPT ![b] = 0], live |-> m.live \cup {b}]
    <3>2. m1.next = links /\ m1.first = NULL /\ m1.last = m.last
      BY <1>1 DEF AllocateBlock, MemType
    <3>3. m1.used = [m.used EXCEPT ![b] = 0] /\ m1.live = m.live \cup {b}
      BY <1>1 DEF AllocateBlock, MemType
    <3>4. m1 = [next |-> m1.next, first |-> m1.first, last |-> m1.last,
                used |-> m1.used, live |-> m1.live]
      <4>1. m1 = [m EXCEPT !.next = links, !.live = m.live \cup {b},
                           !.used = [m.used EXCEPT ![b] = 0]]
        BY DEF AllocateBlock
      <4> HIDE DEF m1, links
      <4> QED BY <1>1, <4>1 DEF MemType
    <3> HIDE DEF m1, links
    <3> QED BY <3>2, <3>3, <3>4
  <2>2. m2 = [next |-> IF m.last # NULL THEN [links EXCEPT ![m.last] = <<b, 2>>] ELSE links,
              first |-> IF m.last # NULL THEN NULL ELSE <<b, 2>>,
              last |-> <<b, StorageNodes>>,
              used |-> [m.used EXCEPT ![b] = 0], live |-> m.live \cup {b}]
    <3> HIDE DEF links, m1
    <3>1. CASE m.last # NULL
      <4>1. m1.last # NULL
        BY <2>1, <3>1
      <4>2. m2 = [[m1 EXCEPT !.next[m.last] = <<b, 2>>] EXCEPT !.last = <<b, StorageNodes>>]
        BY <2>1, <4>1 DEF AppendRest
      <4> QED BY <2>1, <3>1, <4>2
    <3>2. CASE m.last = NULL
      <4>1. m1.last = NULL
        BY <2>1, <3>2
      <4>2. m2 = [[m1 EXCEPT !.first = <<b, 2>>] EXCEPT !.last = <<b, StorageNodes>>]
        BY <4>1 DEF AppendRest
      <4> QED BY <2>1, <3>2, <4>2
    <3> QED BY <3>1, <3>2
  <2> HIDE DEF m1, m2
  <2>3. r = [[m2 EXCEPT !.next[n] = NULL] EXCEPT !.used[b] = @ + 1]
    BY <1>2, <1>5 DEF AllocateNode, AllocatedNode, BlockOf, m2, m1
  <2> HIDE DEF r, links, n
  <2> QED BY <2>2, <2>3
<1> HIDE DEF r, links
<1>8. r.next \in [Node -> Node \cup {NULL}]
  BY <1>2, <1>4, <1>6, <1>7
<1>9. r.used \in [Blocks -> 0..StorageNodes] /\ r.used[b] = 1
      /\ \A x \in Blocks \ {b} : r.used[x] = m.used[x]
  BY <1>1, <1>2, <1>7
<1>10. MemType(r)
  <2>1. r.first \in Node \cup {NULL} /\ r.last \in Node \cup {NULL}
    BY <1>2, <1>4, <1>7
  <2>2. r.live \in SUBSET Blocks
    BY <1>1, <1>7
  <2> QED BY <1>7, <1>8, <1>9, <2>1, <2>2 DEF MemType
<1>11. \A x \in U \cup {n} : Alive(r, x)
  BY <1>5, <1>7 DEF MemSound, Divided, Alive
<1>12. ASSUME NEW x \in r.live
       PROVE  r.used[x] > 0 /\ r.used[x] = Cardinality((U \cup {n}) \cap NodesOf(x))
  <2>1. x \in Blocks
    BY <1>1, <1>7, <1>12
  <2>2. Cardinality((U \cup {n}) \cap NodesOf(x))
            = Cardinality(U \cap NodesOf(x)) + IF BlockOf(n) = x THEN 1 ELSE 0
    BY <1>1, <1>5, <2>1, CountTaken
  <2>3. CASE x = b
    <3>1. U \cap NodesOf(b) = {}
      <4> SUFFICES ASSUME NEW y \in U \cap NodesOf(b) PROVE FALSE
        OBVIOUS
      <4>1. BlockOf(y) = b /\ Alive(m, y)
        BY <1>1, NodesInBlocks DEF MemSound, Divided
      <4> QED BY <1>2, <4>1 DEF Alive
    <3>2. Cardinality(U \cap NodesOf(b)) = 0
      BY <3>1, FS_EmptySet
    <3> QED BY <1>5, <1>9, <2>2, <2>3, <3>2
  <2>4. CASE x # b
    <3>1. x \in m.live
      BY <1>7, <1>12, <2>4
    <3>2. m.used[x] > 0 /\ m.used[x] = Cardinality(U \cap NodesOf(x)) /\ m.used[x] \in Nat
      BY <1>1, <1>2, <2>1, <3>1 DEF MemSound, Divided
    <3> QED BY <1>5, <1>9, <2>1, <2>2, <2>4, <3>2
  <2> QED BY <2>3, <2>4
<1>13. \A x \in Preallocs : x \in U
  BY <1>3 DEF MemSound, Divided, InList
<1>14. ASSUME NEW x \in U PROVE r.next[x] = m.next[x]
  <2>1. x \in Node /\ BlockOf(x) # b /\ x # n
    <3>1. Alive(m, x) /\ x \in Node /\ x # n
      BY <1>1, <1>5, <1>14 DEF MemSound, Divided
    <3> QED BY <1>2, <3>1 DEF Alive
  <2>2. x # m.last
    BY <1>3, <1>14 DEF MemSound, Divided
  <2>3. links[x] = m.next[x]
    BY <2>1 DEF links, Linked
  <2> QED BY <1>6, <1>7, <2>1, <2>2, <2>3
<1>15. \E d : /\ IsChain(r.next, r.first, d)
              /\ \A i \in 1..Len(d) : d[i] \notin U \cup {n} /\ Alive(r, d[i])
              /\ r.last \in U \cup {n} \/ InList(r.last, d) => d # <<>> /\ r.last = d[Len(d)]
  <2>1. r.last \notin U \cup {n}
    BY <1>2, <1>4, <1>7
  <2>2. CASE m.last # NULL
    <3>1. IsChain(r.next, r.first, <<>>)
      BY <1>7, <2>2 DEF IsChain, Behind
    <3>2. ~InList(r.last, <<>>)
      BY DEF InList
    <3> QED BY <2>1, <3>1, <3>2
  <2>3. CASE m.last = NULL
    <3> DEFINE d == [i \in 1..StorageNodes - 1 |-> <<b, i + 1>>]
    <3>1. \A i \in 1..StorageNodes - 1 : i + 1 \in 1..StorageNodes
      BY <1>2
    <3> DEFINE l == StorageNodes - 1
    <3>3. d \in [1..l -> Node] /\ \A i \in 1..l : d[i] = <<b, i + 1>>
      BY <1>4, <3>1
    <3>9. l \in Nat \ {0} /\ StorageNodes = l + 1
      BY <1>2
    <3> HIDE DEF d, l
    <3>2. d \in Seq(Node) /\ Len(d) = l
      BY <3>3, <3>9, FunctionIsList
    <3>4. \A i, j \in 1..Len(d) : d[i] = d[j] => i = j
      BY <3>2, <3>3, <3>9
    <3>10. ASSUME NEW i \in 1..l
           PROVE  /\ i + 1 \in 1..StorageNodes /\ d[i] = <<b, i + 1>> /\ d[i] \in Node
                  /\ BlockOf(d[i]) = b /\ d[i] # n /\ d[i] \notin U
      <4>1. i + 1 \in 1..StorageNodes /\ i + 1 # 1 /\ d[i] = <<b, i + 1>>
        BY <3>3, <3>9
      <4>2. <<b, i + 1>> \in Node /\ BlockOf(<<b, i + 1>>) = b /\ <<b, i + 1>> \notin U
        BY <1>4, <4>1
      <4> QED BY <4>1, <4>2
    <3>5. r.first = Behind(d, 0)
      <4>1. 1 \in 1..l /\ d[1] = <<b, 2>> /\ Len(d) # 0
        BY <3>2, <3>3, <3>9
      <4> QED BY <1>7, <2>3, <4>1 DEF Behind
    <3>6. ASSUME NEW i \in 1..Len(d) PROVE r.next[d[i]] = Behind(d, i)
      <4>0. i \in 1..l
        BY <3>2
      <4>1. links[d[i]] = IF i + 1 = StorageNodes THEN NULL ELSE <<b, i + 1 + 1>>
        BY <3>10, <4>0 DEF links, Linked
      <4>2. r.next[d[i]] = links[d[i]]
        BY <1>6, <1>7, <2>3, <3>10, <4>0
      <4>3. CASE i = Len(d)
        BY <3>2, <3>9, <4>1, <4>2, <4>3 DEF Behind
      <4>4. CASE i # Len(d)
        <5>1. i + 1 \in 1..l /\ i + 1 # StorageNodes
          BY <3>2, <3>9, <4>0, <4>4
        <5>2. d[i + 1] = <<b, i + 1 + 1>>
          BY <3>3, <5>1
        <5> QED BY <4>1, <4>2, <4>4, <5>1, <5>2 DEF Behind
      <4> QED BY <4>3, <4>4
    <3>7. \A i \in 1..Len(d) : d[i] \notin U \cup {n} /\ Alive(r, d[i])
      BY <1>7, <3>2, <3>10 DEF Alive
    <3>8. d # <<>> /\ r.last = d[Len(d)]
      <4>1. Len(d) # 0 /\ Len(d) \in 1..l /\ Len(d) + 1 = StorageNodes
        BY <3>2, <3>9
      <4> QED BY <1>7, <3>2, <3>3, <4>1, EmptySeq
    <3> QED BY <3>2, <3>4, <3>5, <3>6, <3>7, <3>8 DEF IsChain
  <2> QED BY <2>2, <2>3
<1>16. \E d : MemSound(r, U \cup {n}, d)
  <2>1. PICK d : /\ IsChain(r.next, r.first, d)
                 /\ \A i \in 1..Len(d) : d[i] \notin U \cup {n} /\ Alive(r, d[i])
                 /\ r.last \in U \cup {n} \/ InList(r.last, d)
                        => d # <<>> /\ r.last = d[Len(d)]
    BY <1>15
  <2>2. r.last # NULL /\ U \cup {n} \subseteq Node
    BY <1>1, <1>2, <1>4, <1>5, <1>7
  <2>3. \A x \in Preallocs : x \in U \cup {n} \/ InList(x, d)
    BY <1>13
  <2>4. MemSound(r, U \cup {n}, d)
    BY <1>10, <1>11, <1>12, <2>1, <2>2, <2>3 DEF MemSound, Divided
  <2> QED BY <2>4
<1> QED BY <1>5, <1>14, <1>16 DEF r

-------------------------------------------------------------------------------
\* freeNode.

\* Giving a node back counts off in its own block only.
LEMMA CountReturned ==
    ASSUME NEW U \in SUBSET Node, NEW n \in U, NEW b \in Blocks
    PROVE  /\ Cardinality(U \cap NodesOf(b))
                = Cardinality((U \ {n}) \cap NodesOf(b)) + IF BlockOf(n) = b THEN 1 ELSE 0
           /\ Cardinality((U \ {n}) \cap NodesOf(b)) \in 0..StorageNodes
<1> DEFINE V == U \ {n}
<1>1. V \in SUBSET Node /\ n \in Node \ V /\ V \cup {n} = U
  OBVIOUS
<1> HIDE DEF V
<1>2. /\ Cardinality((V \cup {n}) \cap NodesOf(b))
            = Cardinality(V \cap NodesOf(b)) + IF BlockOf(n) = b THEN 1 ELSE 0
      /\ Cardinality(V \cap NodesOf(b)) \in 0..StorageNodes
  <2>1. V \in SUBSET Node /\ n \in Node \ V
    BY <1>1
  <2> QED BY <2>1, CountTaken, Zenon
<1> QED BY <1>1, <1>2 DEF V

\* A preallocated node goes to the front of the free list.
LEMMA FreePreallocated ==
    ASSUME NEW m, NEW U, NEW c, MemSound(m, U, c), NEW n \in U, BlockOf(n) = NULL
    PROVE  LET r == FreeNode(m, n)
           IN  /\ \A x \in U \ {n} : r.next[x] = m.next[x]
               /\ MemSound(r, U \ {n}, InsertedAt(c, 1, n))
<1> DEFINE r == FreeNode(m, n)
           d == InsertedAt(c, 1, n)
           V == U \ {n}
<1>1. /\ MemType(m) /\ U \subseteq Node /\ n \in Node /\ IsChain(m.next, m.first, c)
      /\ m.live \subseteq Blocks /\ m.used \in [Blocks -> 0..StorageNodes]
      /\ m.next \in [Node -> Node \cup {NULL}]
      /\ m.first \in Node \cup {NULL} /\ m.last \in Node \cup {NULL}
      /\ c \in Seq(Node) /\ Len(c) \in Nat /\ \A i \in 1..Len(c) : c[i] \in Node
  BY LenProperties, ElementOfSeq DEF MemSound, Divided, MemType, IsChain
<1>2. ~InList(n, c)
  BY DEF MemSound, Divided, InList
<1>3. /\ r.next = [m.next EXCEPT ![n] = m.first]
      /\ r.first = n
      /\ r.last = IF m.last = NULL THEN n ELSE m.last
      /\ r.used = m.used /\ r.live = m.live
      /\ r = [next |-> r.next, first |-> r.first, last |-> r.last,
              used |-> r.used, live |-> r.live]
  BY <1>1 DEF FreeNode, MemType
<1> HIDE DEF r, d, V
<1>4. MemType(r)
  BY <1>1, <1>3 DEF MemType
<1>5. /\ IsChain(r.next, n, d) /\ d # <<>>
      /\ \A x : InList(x, d) <=> x = n \/ InList(x, c)
      /\ d[Len(d)] = IF Len(c) = 0 THEN n ELSE c[Len(c)]
  <2>1. 1 \in 1..Len(c) + 1 /\ (1 = Len(c) + 1 <=> Len(c) = 0)
    BY <1>1
  <2>2. r.next[n] = Behind(c, 1 - 1)
    BY <1>1, <1>3 DEF IsChain
  <2>3. \A i \in 1..Len(c) : r.next[c[i]] = IF i = 1 - 1 THEN n ELSE m.next[c[i]]
    BY <1>1, <1>2, <1>3 DEF InList
  <2> QED BY <1>1, <1>2, <2>1, <2>2, <2>3, ChainInsert DEF d
<1>6. V \subseteq Node /\ \A x \in V : r.next[x] = m.next[x]
  BY <1>1, <1>3 DEF V
<1>7. \A i \in 1..Len(d) : d[i] \notin V /\ Alive(r, d[i])
  <2> SUFFICES ASSUME NEW i \in 1..Len(d) PROVE d[i] \notin V /\ Alive(r, d[i])
    OBVIOUS
  <2>1. d[i] = n \/ InList(d[i], c)
    BY <1>5 DEF InList
  <2>2. CASE d[i] = n
    BY <2>2 DEF V, Alive
  <2>3. CASE InList(d[i], c)
    BY <1>3, <2>3 DEF V, Alive, InList, MemSound, Divided
  <2> QED BY <2>1, <2>2, <2>3
<1>8. \A x \in V : Alive(r, x)
  BY <1>3 DEF V, Alive, MemSound, Divided
<1>9. r.last # NULL
  BY <1>1, <1>3, NodesFinite
<1>10. ASSUME r.last \in V \/ InList(r.last, d) PROVE r.last = d[Len(d)]
  <2>1. CASE m.last = NULL
    <3>1. Len(c) = 0 /\ r.last = n
      BY <1>3, <2>1, EmptySeq DEF MemSound, Divided
    <3> QED BY <1>5, <3>1
  <2>2. CASE m.last # NULL
    <3>1. m.last \in U \/ InList(m.last, c)
      BY <1>3, <1>5, <1>10, <2>2 DEF V
    <3>2. c # <<>> /\ m.last = c[Len(c)]
      BY <3>1 DEF MemSound, Divided
    <3>3. Len(c) # 0
      BY <1>1, <3>2, EmptySeq
    <3> QED BY <1>3, <1>5, <2>2, <3>2, <3>3
  <2> QED BY <2>1, <2>2
<1>11. ASSUME NEW b \in r.live
       PROVE  r.used[b] > 0 /\ r.used[b] = Cardinality(V \cap NodesOf(b))
  <2>1. b \in Blocks /\ BlockOf(n) # b /\ b \in m.live
    BY <1>1, <1>3, <1>11, PQAssumption
  <2>2. /\ Cardinality(U \cap NodesOf(b))
                = Cardinality(V \cap NodesOf(b)) + IF BlockOf(n) = b THEN 1 ELSE 0
        /\ Cardinality(V \cap NodesOf(b)) \in 0..StorageNodes
    <3>1. U \in SUBSET Node /\ n \in U
      BY <1>1
    <3> QED BY <2>1, <3>1, CountReturned DEF V
  <2>3. m.used[b] > 0 /\ m.used[b] = Cardinality(U \cap NodesOf(b))
    BY <2>1 DEF MemSound, Divided
  <2> QED BY <1>3, <2>1, <2>2, <2>3, PQAssumption
<1>12. \A x \in Preallocs : x \in V \/ InList(x, d)
  BY <1>5 DEF V, MemSound, Divided
<1>13. MemSound(r, V, d)
  BY <1>3, <1>4, <1>5, <1>6, <1>7, <1>8, <1>9, <1>10, <1>11, <1>12 DEF MemSound, Divided
<1> QED BY <1>6, <1>13 DEF r, d, V

\* freeNode before it looks whether the block is used up.
Returned(m, n) ==
    LET ended == [m EXCEPT !.next[n] = NULL]
        placed == IF m.last # NULL THEN [ended EXCEPT !.next[m.last] = n]
                                   ELSE [ended EXCEPT !.first = n]
    IN  [placed EXCEPT !.last = n, !.used[BlockOf(n)] = @ - 1]

\* A block's node goes to the end of the free list, or is lost with it.
LEMMA ReturnedDivided ==
    ASSUME NEW m, NEW U, NEW c, MemSound(m, U, c), NEW n \in U, BlockOf(n) # NULL
    PROVE  LET r == Returned(m, n)
               b == BlockOf(n)
           IN  /\ \A x \in U \ {n} : r.next[x] = m.next[x]
               /\ b \in Blocks /\ b \in m.live
               /\ r.last = n /\ r.live = m.live
               /\ \A x \in m.live \ {b} : r.used[x] > 0
               /\ \E d : Divided(r, U \ {n}, d)
<1> DEFINE r == Returned(m, n)
           b == BlockOf(n)
           V == U \ {n}
<1>1. /\ MemType(m) /\ U \subseteq Node /\ n \in Node /\ IsChain(m.next, m.first, c)
      /\ m.live \subseteq Blocks /\ m.used \in [Blocks -> 0..StorageNodes]
      /\ m.next \in [Node -> Node \cup {NULL}]
      /\ m.first \in Node \cup {NULL} /\ m.last \in Node \cup {NULL}
      /\ c \in Seq(Node) /\ Len(c) \in Nat /\ \A i \in 1..Len(c) : c[i] \in Node
  BY LenProperties, ElementOfSeq DEF MemSound, Divided, MemType, IsChain
<1>2. ~InList(n, c) /\ n # NULL
  BY <1>1, NodesFinite DEF MemSound, Divided, InList
<1>3. b \in m.live /\ b \in Blocks
  BY <1>1 DEF MemSound, Divided, Alive
<1>4. m.used[b] \in 1..StorageNodes /\ \A x \in m.live : m.used[x] > 0
  BY <1>1, <1>3, PQAssumption DEF MemSound
<1>5. /\ r.next = IF m.last # NULL THEN [[m.next EXCEPT ![n] = NULL] EXCEPT ![m.last] = n]
                                   ELSE [m.next EXCEPT ![n] = NULL]
      /\ r.first = IF m.last # NULL THEN m.first ELSE n
      /\ r.last = n
      /\ r.used = [m.used EXCEPT ![b] = @ - 1]
      /\ r.live = m.live
      /\ r = [next |-> r.next, first |-> r.first, last |-> r.last,
              used |-> r.used, live |-> r.live]
  <2> DEFINE ended == [m EXCEPT !.next[n] = NULL]
             placed == IF m.last # NULL THEN [ended EXCEPT !.next[m.last] = n]
                                        ELSE [ended EXCEPT !.first = n]
  <2>1. ended = [next |-> [m.next EXCEPT ![n] = NULL], first |-> m.first,
                 last |-> m.last, used |-> m.used, live |-> m.live]
    BY <1>1 DEF MemType
  <2> HIDE DEF ended
  <2>2. placed = [next |-> IF m.last # NULL
                           THEN [[m.next EXCEPT ![n] = NULL] EXCEPT ![m.last] = n]
                           ELSE [m.next EXCEPT ![n] = NULL],
                  first |-> IF m.last # NULL THEN m.first ELSE n,
                  last |-> m.last, used |-> m.used, live |-> m.live]
    <3>1. CASE m.last # NULL
      BY <2>1, <3>1
    <3>2. CASE m.last = NULL
      BY <2>1, <3>2
    <3> QED BY <3>1, <3>2
  <2>3. r = [placed EXCEPT !.last = n, !.used[b] = @ - 1]
    BY DEF Returned, ended
  <2> HIDE DEF placed, r, b
  <2> QED BY <2>2, <2>3
<1> HIDE DEF r, b, V
<1>6. MemType(r)
  <2>1. r.next \in [Node -> Node \cup {NULL}]
    <3>1. CASE m.last # NULL
      <4>1. m.last \in Node /\ r.next = [[m.next EXCEPT ![n] = NULL] EXCEPT ![m.last] = n]
        BY <1>1, <1>5, <3>1
      <4> QED BY <1>1, <4>1
    <3>2. CASE m.last = NULL
      BY <1>1, <1>5, <3>2
    <3> QED BY <3>1, <3>2
  <2>2. r.used \in [Blocks -> 0..StorageNodes]
    BY <1>1, <1>3, <1>4, <1>5, PQAssumption
  <2> QED BY <1>1, <1>5, <2>1, <2>2 DEF MemType
<1>7. \A x \in m.live \ {b} : r.used[x] > 0
  BY <1>1, <1>4, <1>5
<1>8. ASSUME NEW x \in V PROVE r.next[x] = m.next[x]
  <2>1. x # m.last
    <3> SUFFICES ASSUME x = m.last PROVE FALSE
      OBVIOUS
    <3>1. c # <<>> /\ x = c[Len(c)]
      BY <1>8 DEF V, MemSound, Divided
    <3>2. Len(c) \in 1..Len(c)
      BY <1>1, <3>1, EmptySeq
    <3> QED BY <1>8, <3>1, <3>2 DEF V, MemSound, Divided
  <2>2. x \in Node /\ x # n
    BY <1>1, <1>8 DEF V
  <2> QED BY <1>1, <1>5, <2>1, <2>2
<1>9. \A x \in V : Alive(r, x)
  BY <1>5 DEF V, Alive, MemSound, Divided
<1>10. Alive(r, n) /\ V \subseteq Node /\ n \notin V
  BY <1>1, <1>5 DEF V, Alive, MemSound, Divided
<1>11. ASSUME NEW x \in r.live PROVE r.used[x] = Cardinality(V \cap NodesOf(x))
  <2>1. x \in Blocks /\ x \in m.live
    BY <1>1, <1>5, <1>11
  <2>2. /\ Cardinality(U \cap NodesOf(x))
                = Cardinality(V \cap NodesOf(x)) + IF b = x THEN 1 ELSE 0
        /\ Cardinality(V \cap NodesOf(x)) \in 0..StorageNodes
    <3>1. U \in SUBSET Node /\ n \in U
      BY <1>1
    <3> QED BY <2>1, <3>1, CountReturned DEF V, b
  <2>3. m.used[x] = Cardinality(U \cap NodesOf(x))
    BY <2>1 DEF MemSound, Divided
  <2>4. r.used[x] = IF b = x THEN m.used[x] - 1 ELSE m.used[x]
    BY <1>1, <1>5, <2>1
  <2> QED BY <2>2, <2>3, <2>4, PQAssumption
<1>12. \E d : /\ IsChain(r.next, r.first, d)
              /\ \A x : InList(x, d) => x = n \/ InList(x, c)
              /\ \A x : InList(x, c) => InList(x, d)
              /\ InList(n, d) => d # <<>> /\ n = d[Len(d)]
  <2>1. CASE m.last = NULL \/ InList(m.last, c)
    <3> DEFINE k == Len(c) + 1
    <3>1. k \in 1..Len(c) + 1 /\ k - 1 = Len(c)
      BY <1>1
    <3>2. m.last # NULL => Len(c) # 0 /\ m.last = c[Len(c)]
      BY <1>1, <2>1, EmptySeq DEF MemSound, Divided
    <3>3. m.last = NULL => Len(c) = 0
      BY EmptySeq DEF MemSound, Divided
    <3>4. r.next[n] = Behind(c, k - 1)
      <4>1. m.last # n
        BY <1>2, <2>1
      <4>2. r.next[n] = NULL
        BY <1>1, <1>5, <4>1
      <4> QED BY <3>1, <4>2 DEF Behind
    <3>5. ASSUME NEW i \in 1..Len(c)
          PROVE  r.next[c[i]] = IF i = k - 1 THEN n ELSE m.next[c[i]]
      <4>1. c[i] # n /\ c[i] \in Node /\ m.last # NULL
        BY <1>1, <1>2, <3>3 DEF InList
      <4>2. c[i] = m.last <=> i = k - 1
        <5>1. Len(c) \in 1..Len(c) /\ m.last = c[Len(c)]
          BY <1>1, <3>2, <4>1
        <5> QED BY <1>1, <3>1, <5>1 DEF IsChain
      <4> QED BY <1>1, <1>5, <4>1, <4>2
    <3>6. (IF k = 1 THEN n ELSE m.first) = r.first
      BY <1>1, <1>5, <3>2, <3>3
    <3> HIDE DEF k
    <3> DEFINE d == InsertedAt(c, k, n)
    <3>7. /\ IsChain(r.next, IF k = 1 THEN n ELSE m.first, d)
          /\ d # <<>>
          /\ \A x : InList(x, d) <=> x = n \/ InList(x, c)
          /\ d[Len(d)] = IF k = Len(c) + 1 THEN n ELSE c[Len(c)]
      <4> DEFINE next2 == r.next
      <4>1. /\ IsChain(m.next, m.first, c) /\ n \in Node /\ ~InList(n, c)
            /\ k \in 1..Len(c) + 1 /\ next2[n] = Behind(c, k - 1)
            /\ \A i \in 1..Len(c) : next2[c[i]] = IF i = k - 1 THEN n ELSE m.next[c[i]]
        BY <1>1, <1>2, <3>1, <3>4, <3>5
      <4> HIDE DEF next2
      <4>2. /\ IsChain(next2, IF k = 1 THEN n ELSE m.first, d)
            /\ d # <<>>
            /\ \A x : InList(x, d) <=> x = n \/ InList(x, c)
            /\ d[Len(d)] = IF k = Len(c) + 1 THEN n ELSE c[Len(c)]
        BY <4>1, ChainInsert
      <4> QED BY <4>2 DEF next2
    <3>8. k = Len(c) + 1
      BY DEF k
    <3> HIDE DEF d
    <3> QED BY <3>6, <3>7, <3>8
  <2>2. CASE m.last # NULL /\ ~InList(m.last, c)
    <3>1. ASSUME NEW i \in 1..Len(c) PROVE r.next[c[i]] = m.next[c[i]]
      <4>1. c[i] # n /\ c[i] # m.last /\ c[i] \in Node
        BY <1>1, <1>2, <2>2 DEF InList
      <4> QED BY <1>1, <1>5, <4>1
    <3>2. IsChain(r.next, r.first, c)
      BY <1>1, <1>5, <2>2, <3>1 DEF IsChain
    <3> QED BY <1>2, <3>2
  <2> QED BY <2>1, <2>2
<1>13. PICK d : /\ IsChain(r.next, r.first, d)
                /\ \A x : InList(x, d) => x = n \/ InList(x, c)
                /\ \A x : InList(x, c) => InList(x, d)
                /\ InList(n, d) => d # <<>> /\ n = d[Len(d)]
  BY <1>12
<1>14. \A i \in 1..Len(d) : d[i] \notin V /\ Alive(r, d[i])
  <2> SUFFICES ASSUME NEW i \in 1..Len(d) PROVE d[i] \notin V /\ Alive(r, d[i])
    OBVIOUS
  <2>1. d[i] = n \/ InList(d[i], c)
    BY <1>13 DEF InList
  <2>2. CASE d[i] = n
    BY <1>10, <2>2
  <2>3. CASE InList(d[i], c)
    BY <1>5, <2>3 DEF V, Alive, InList, MemSound, Divided
  <2> QED BY <2>1, <2>2, <2>3
<1>15. \A x \in Preallocs : x \in V \/ InList(x, d)
  <2> SUFFICES ASSUME NEW x \in Preallocs PROVE x \in V \/ InList(x, d)
    OBVIOUS
  <2>1. x # n
    BY NodesInBlocks, <1>1
  <2> QED BY <1>13, <2>1 DEF V, MemSound, Divided
<1>16. Divided(r, V, d)
  BY <1>2, <1>5, <1>6, <1>9, <1>10, <1>11, <1>13, <1>14, <1>15 DEF Divided
<1> QED BY <1>3, <1>5, <1>7, <1>8, <1>16 DEF r, b, V

\* Behind each node that is kept comes the next one that is.
LEMMA NextKeptIs ==
    ASSUME NEW c \in Seq(Node), NEW keep \in SUBSET (1..Len(c)),
           NEW e, Ascending(e, keep), NEW i \in 0..Len(e)
    PROVE  NextKept(c, keep, IF i = 0 THEN 0 ELSE e[i])
                = IF i = Len(e) THEN NULL ELSE c[e[i + 1]]
<1> DEFINE from == IF i = 0 THEN 0 ELSE e[i]
           later == {j \in keep : j > from}
<1>1. /\ Len(c) \in Nat /\ Len(e) \in Nat
      /\ \A j \in 1..Len(e) : e[j] \in keep /\ e[j] \in 1..Len(c)
  BY LenProperties, ElementOfSeq DEF Ascending
<1>2. \A j, k \in 1..Len(e) : j < k => e[j] < e[k]
  BY DEF Ascending
<1>3. ASSUME NEW j \in keep PROVE \E k \in 1..Len(e) : e[k] = j
  BY DEF Ascending
<1>4. CASE i = Len(e)
  <2>1. ASSUME NEW j \in later PROVE FALSE
    <3>1. PICK k \in 1..Len(e) : e[k] = j
      BY <1>3
    <3>2. i # 0 /\ i \in 1..Len(e) /\ e[k] > e[i]
      BY <1>1, <1>4, <3>1
    <3>3. k < i \/ k = i
      BY <1>1, <1>4
    <3>4. e[k] \in Nat /\ e[i] \in Nat
      BY <1>1, <3>2
    <3> QED BY <1>2, <3>2, <3>3, <3>4
  <2>2. later = {}
    BY <2>1
  <2> QED BY <1>4, <2>2 DEF NextKept
<1>5. CASE i # Len(e)
  <2>1. i + 1 \in 1..Len(e) /\ e[i + 1] \in keep /\ e[i + 1] \in Nat
    BY <1>1, <1>5
  <2>2. from \in Nat /\ e[i + 1] > from
    BY <1>1, <1>2, <1>5, <2>1
  <2>3. ASSUME NEW j \in later PROVE e[i + 1] <= j
    <3>1. PICK k \in 1..Len(e) : e[k] = j
      BY <1>3
    <3>2. e[k] \in Nat /\ e[k] > from
      BY <1>1, <3>1
    <3>3. ~(k <= i)
      <4> SUFFICES ASSUME k <= i PROVE FALSE
        OBVIOUS
      <4>1. i # 0 /\ i \in 1..Len(e) /\ (k < i \/ k = i)
        BY <1>1
      <4> QED BY <1>1, <1>2, <3>2, <4>1
    <3>4. k = i + 1 \/ i + 1 < k
      BY <1>1, <3>3
    <3> QED BY <1>2, <2>1, <3>1, <3>2, <3>4
  <2>4. e[i + 1] \in later
    BY <2>1, <2>2
  <2>5. later \subseteq Nat /\ later # {}
    <3>1. keep \subseteq Nat /\ later \subseteq keep
      BY <1>1
    <3> HIDE DEF later
    <3> QED BY <2>4, <3>1
  <2>6. Min(later) = e[i + 1]
    <3>1. Min(later) \in later /\ \A y \in later : Min(later) <= y
      BY <2>5, LeastNatural
    <3>2. Min(later) <= e[i + 1] /\ e[i + 1] <= Min(later) /\ Min(later) \in Nat
      BY <2>3, <2>4, <2>5, <3>1
    <3> QED BY <2>1, <3>2
  <2> HIDE DEF later
  <2>7. NextKept(c, keep, from) = c[Min(later)]
    BY <2>5 DEF NextKept, later
  <2> QED BY <1>5, <2>6, <2>7
<1> QED BY <1>4, <1>5

\* A block that is used up goes with its nodes on the free list, and leaves the end of
\* the list lost.
LEMMA DropSound ==
    ASSUME NEW m, NEW U, NEW c, Divided(m, U, c), NEW b \in m.live, m.used[b] = 0,
           m.last \notin U, m.last # NULL, BlockOf(m.last) = b,
           \A x \in m.live \ {b} : m.used[x] > 0
    PROVE  LET r == DropBlock(m, b)
           IN  /\ \A x \in U : r.next[x] = m.next[x]
               /\ \E d : MemSound(r, U, d)
<1> DEFINE r == DropBlock(m, b)
           keep == {i \in 1..Len(c) : BlockOf(c[i]) # b}
           place(n) == CHOOSE i \in keep : c[i] = n
<1>1. /\ MemType(m) /\ U \subseteq Node /\ IsChain(m.next, m.first, c)
      /\ m.live \subseteq Blocks /\ m.used \in [Blocks -> 0..StorageNodes]
      /\ m.next \in [Node -> Node \cup {NULL}]
      /\ m.first \in Node \cup {NULL} /\ m.last \in Node \cup {NULL}
      /\ c \in Seq(Node) /\ Len(c) \in Nat /\ \A i \in 1..Len(c) : c[i] \in Node
      /\ \A i, j \in 1..Len(c) : c[i] = c[j] => i = j
  BY LenProperties, ElementOfSeq DEF Divided, MemType, IsChain
<1>2. Chain(m.next, m.first) = c /\ DOMAIN c = 1..Len(c)
  BY <1>1, ChainIs, LenProperties
<1>3. /\ r.next = [n \in Node |-> IF \E i \in keep : c[i] = n
                                  THEN NextKept(c, keep, place(n)) ELSE m.next[n]]
      /\ r.first = NextKept(c, keep, 0)
      /\ r.last = m.last /\ r.used = m.used /\ r.live = m.live \ {b}
      /\ r = [next |-> r.next, first |-> r.first, last |-> r.last,
              used |-> r.used, live |-> r.live]
  <2> DEFINE nx == [n \in Node |-> IF \E i \in keep : c[i] = n
                                   THEN NextKept(c, keep, place(n)) ELSE m.next[n]]
  <2>1. r = [m EXCEPT !.next = nx, !.first = NextKept(c, keep, 0), !.live = m.live \ {b}]
    BY <1>2 DEF DropBlock
  <2> HIDE DEF nx, keep, r
  <2>2. r = [next |-> nx, first |-> NextKept(c, keep, 0), last |-> m.last,
             used |-> m.used, live |-> m.live \ {b}]
    BY <1>1, <2>1 DEF MemType
  <2>3. r.next = nx
    BY <2>2
  <2> QED BY <2>2, <2>3 DEF nx
<1>4. keep \in SUBSET (1..Len(c))
  OBVIOUS
<1>5. PICK e : Ascending(e, keep)
  BY <1>1, <1>4, AscendingExists
<1>6. /\ Len(e) \in Nat /\ e \in Seq(keep)
      /\ \A i \in 1..Len(e) : e[i] \in keep /\ e[i] \in 1..Len(c) /\ BlockOf(c[e[i]]) # b
  BY <1>5, LenProperties, ElementOfSeq DEF Ascending
<1> HIDE DEF r
<1> DEFINE d == [i \in 1..Len(e) |-> c[e[i]]]
<1>7. d \in [1..Len(e) -> Node] /\ \A i \in 1..Len(e) : d[i] = c[e[i]]
  BY <1>1, <1>6
<1> HIDE DEF d
<1>8. d \in Seq(Node) /\ Len(d) = Len(e)
  <2>1. Len(e) \in Nat /\ d \in [1..Len(e) -> Node]
    BY <1>6, <1>7
  <2> QED BY <2>1, FunctionIsList
<1>9. \A i, j \in 1..Len(d) : d[i] = d[j] => i = j
  <2> SUFFICES ASSUME NEW i \in 1..Len(d), NEW j \in 1..Len(d), d[i] = d[j] PROVE i = j
    OBVIOUS
  <2>1. e[i] = e[j]
    <3>1. i \in 1..Len(e) /\ j \in 1..Len(e)
      BY <1>8
    <3>2. c[e[i]] = c[e[j]] /\ e[i] \in 1..Len(c) /\ e[j] \in 1..Len(c)
      BY <1>6, <1>7, <3>1
    <3> QED BY <1>1, <3>2
  <2>2. e[i] \in Nat /\ (i < j => e[i] < e[j]) /\ (j < i => e[j] < e[i])
    BY <1>5, <1>6, <1>8 DEF Ascending
  <2> QED BY <1>6, <1>8, <2>1, <2>2
<1>22. \A i \in 0..Len(e) : NextKept(c, keep, IF i = 0 THEN 0 ELSE e[i])
                               = IF i = Len(e) THEN NULL ELSE c[e[i + 1]]
  <2> HIDE DEF keep
  <2>1. c \in Seq(Node) /\ keep \in SUBSET (1..Len(c)) /\ Ascending(e, keep)
    BY <1>1, <1>4, <1>5
  <2> QED BY <2>1, NextKeptIs
<1>10. r.first = Behind(d, 0)
  <2>1. NextKept(c, keep, 0) = IF 0 = Len(e) THEN NULL ELSE c[e[1]]
    <3> HIDE DEF keep
    <3>1. 0 \in 0..Len(e) /\ 0 + 1 = 1
      BY <1>6
    <3> QED BY <1>22, <3>1
  <2>2. Len(e) # 0 => 1 \in 1..Len(e)
    BY <1>6
  <2> QED BY <1>3, <1>7, <1>8, <2>1, <2>2 DEF Behind
<1>11. ASSUME NEW i \in 1..Len(d) PROVE r.next[d[i]] = Behind(d, i)
  <2>1. d[i] = c[e[i]] /\ d[i] \in Node /\ e[i] \in keep
    BY <1>6, <1>7, <1>8
  <2>2. place(d[i]) = e[i]
    <3>1. place(d[i]) \in keep /\ c[place(d[i])] = d[i]
      BY <2>1
    <3> QED BY <1>1, <2>1, <3>1
  <2>3. r.next[d[i]] = NextKept(c, keep, e[i])
    <3> HIDE DEF place
    <3> QED BY <1>3, <2>1, <2>2
  <2>4. NextKept(c, keep, e[i]) = IF i = Len(e) THEN NULL ELSE c[e[i + 1]]
    <3> HIDE DEF keep
    <3>1. i \in 0..Len(e) /\ i # 0
      BY <1>6, <1>8
    <3> QED BY <1>22, <3>1
  <2>5. i # Len(e) => i + 1 \in 1..Len(e)
    BY <1>6, <1>8
  <2> QED BY <1>7, <1>8, <2>3, <2>4, <2>5 DEF Behind
<1>12. IsChain(r.next, r.first, d)
  BY <1>8, <1>9, <1>10, <1>11 DEF IsChain
<1>13. ASSUME NEW x PROVE InList(x, d) <=> InList(x, c) /\ BlockOf(x) # b
  <2>1. ASSUME NEW i \in 1..Len(d), d[i] = x PROVE InList(x, c) /\ BlockOf(x) # b
    BY <1>6, <1>7, <1>8, <2>1 DEF InList
  <2>2. ASSUME NEW i \in 1..Len(c), c[i] = x, BlockOf(x) # b PROVE InList(x, d)
    <3>1. PICK k \in 1..Len(e) : e[k] = i
      BY <1>5, <2>2 DEF Ascending
    <3> QED BY <1>7, <1>8, <2>2, <3>1 DEF InList
  <2> QED BY <2>1, <2>2 DEF InList
<1>14. ASSUME NEW x \in U PROVE BlockOf(x) # b /\ r.next[x] = m.next[x]
  <2>1. x \in Node /\ \A i \in keep : c[i] # x
    BY <1>1 DEF Divided
  <2>2. b \in Blocks
    BY <1>1
  <2>3. U \cap NodesOf(b) = {}
    <3>1. Cardinality(U \cap NodesOf(b)) = 0
      BY DEF Divided
    <3>2. IsFiniteSet(U \cap NodesOf(b))
      BY <2>2, NodesFinite, FS_Subset
    <3> QED BY <3>1, <3>2, FS_EmptySet
  <2>4. BlockOf(x) # b
    BY <2>1, <2>2, <2>3, NodesInBlocks
  <2>5. r.next[x] = m.next[x]
    <3> HIDE DEF keep, place
    <3> QED BY <1>3, <2>1
  <2> QED BY <2>4, <2>5
<1>15. MemType(r)
  <2>1. r.next \in [Node -> Node \cup {NULL}]
    <3> SUFFICES ASSUME NEW n \in Node
                 PROVE  r.next[n] \in Node \cup {NULL}
      <4> HIDE DEF keep, place
      <4> QED BY <1>3
    <3>1. CASE \E i \in keep : c[i] = n
      <4>1. PICK i \in keep : c[i] = n
        BY <3>1
      <4>2. PICK k \in 1..Len(e) : e[k] = i
        BY <1>5 DEF Ascending
      <4>3. k \in 1..Len(d) /\ d[k] = n
        BY <1>7, <1>8, <4>1, <4>2
      <4>4. r.next[n] = Behind(d, k)
        BY <1>11, <4>3
      <4>5. k # Len(d) => d[k + 1] \in Node
        <5> SUFFICES ASSUME k # Len(d) PROVE d[k + 1] \in Node
          OBVIOUS
        <5>1. k + 1 \in 1..Len(e)
          BY <1>6, <1>8, <4>3
        <5> QED BY <1>7, <5>1
      <4> QED BY <4>4, <4>5 DEF Behind
    <3>2. CASE ~\E i \in keep : c[i] = n
      <4> HIDE DEF keep, place
      <4> QED BY <1>1, <1>3, <3>2
    <3> QED BY <3>1, <3>2
  <2>2. r.first \in Node \cup {NULL}
    <3>1. Len(d) # 0 => d[1] \in Node
      BY <1>6, <1>7, <1>8
    <3> QED BY <1>10, <3>1 DEF Behind
  <2>3. r.last \in Node \cup {NULL} /\ r.used \in [Blocks -> 0..StorageNodes]
        /\ r.live \in SUBSET Blocks
    BY <1>1, <1>3
  <2> HIDE DEF keep, place
  <2> QED BY <1>3, <2>1, <2>2, <2>3 DEF MemType
<1> HIDE DEF keep, place
<1>16. \A i \in 1..Len(d) : d[i] \notin U /\ Alive(r, d[i])
  <2> SUFFICES ASSUME NEW i \in 1..Len(d) PROVE d[i] \notin U /\ Alive(r, d[i])
    OBVIOUS
  <2>1. InList(d[i], c) /\ BlockOf(d[i]) # b
    BY <1>13 DEF InList
  <2> QED BY <1>3, <2>1 DEF InList, Divided, Alive
<1>17. \A x \in U : Alive(r, x)
  BY <1>3, <1>14 DEF Divided, Alive
<1>18. r.last \notin U /\ ~InList(r.last, d) /\ r.last # NULL
  BY <1>3, <1>13
<1>19. \A x \in r.live : r.used[x] > 0 /\ r.used[x] = Cardinality(U \cap NodesOf(x))
  BY <1>3 DEF Divided
<1>20. \A x \in Preallocs : x \in U \/ InList(x, d)
  <2> SUFFICES ASSUME NEW x \in Preallocs PROVE x \in U \/ InList(x, d)
    OBVIOUS
  <2>1. BlockOf(x) # b
    <3>1. x \in Node
      BY DEF Node
    <3> QED BY <1>1, <3>1, NodesInBlocks, PQAssumption
  <2> QED BY <1>13, <2>1 DEF Divided
<1>21. MemSound(r, U, d)
  BY <1>1, <1>12, <1>15, <1>16, <1>17, <1>18, <1>19, <1>20 DEF MemSound, Divided
<1> QED BY <1>14, <1>21 DEF r

\* freeNode, whichever way it goes.
LEMMA FreeNodeSound ==
    ASSUME NEW m, NEW U, NEW c, MemSound(m, U, c), NEW n \in U
    PROVE  LET r == FreeNode(m, n)
           IN  /\ \A x \in U \ {n} : r.next[x] = m.next[x]
               /\ \E d : MemSound(r, U \ {n}, d)
<1>1. CASE BlockOf(n) = NULL
  BY <1>1, FreePreallocated
<1>2. CASE BlockOf(n) # NULL
  <2> DEFINE left == Returned(m, n)
             b == BlockOf(n)
             V == U \ {n}
  <2>1. /\ \A x \in V : left.next[x] = m.next[x]
        /\ b \in Blocks /\ b \in m.live
        /\ left.last = n /\ left.live = m.live
        /\ \A x \in m.live \ {b} : left.used[x] > 0
        /\ \E d : Divided(left, V, d)
    BY <1>2, ReturnedDivided
  <2>2. FreeNode(m, n) = IF left.used[b] = 0 THEN DropBlock(left, b) ELSE left
    BY <1>2 DEF FreeNode, Returned
  <2> HIDE DEF left, b
  <2>3. PICK d : Divided(left, V, d)
    BY <2>1
  <2>4. CASE left.used[b] = 0
    <3>1. left.last \notin V /\ left.last # NULL /\ BlockOf(left.last) = b
      <4>1. n # NULL
        BY NodesFinite DEF MemSound, Divided
      <4> QED BY <2>1, <4>1 DEF b
    <3> HIDE DEF V
    <3>2. LET r == DropBlock(left, b)
          IN  /\ \A x \in V : r.next[x] = left.next[x]
              /\ \E f : MemSound(r, V, f)
      BY <2>1, <2>3, <2>4, <3>1, DropSound
    <3> QED BY <2>1, <2>2, <2>4, <3>2 DEF V
  <2>5. CASE left.used[b] # 0
    <3>1. left.used[b] \in Nat
      BY <2>1, <2>3, PQAssumption DEF Divided, MemType
    <3>2. MemSound(left, V, d)
      BY <2>1, <2>3, <2>5, <3>1 DEF MemSound
    <3> QED BY <2>1, <2>2, <2>5, <3>2
  <2> QED BY <2>4, <2>5
<1> QED BY <1>1, <1>2

-------------------------------------------------------------------------------
\* clear.

\* The memory after each of the first n nodes of c is freed.
Frees(g, m, c, n) == g = [k \in 0..n |-> IF k = 0 THEN m ELSE FreeNode(g[k - 1], c[k])]

\* The nodes of a list can be freed one after the other.
LEMMA FreedExists ==
    ASSUME NEW m, NEW c
    PROVE  \A n \in Nat : \E g : Frees(g, m, c, n)
<1> DEFINE S == {n \in Nat : \E g : Frees(g, m, c, n)}
<1>1. ASSUME NEW n \in Nat, \A k \in 0..n - 1 : k \in S PROVE n \in S
  <2>1. CASE n = 0
    <3> DEFINE g == [k \in 0..n |-> m]
    <3>1. \A k \in 0..n : k = 0
      BY <2>1
    <3>2. Frees(g, m, c, n)
      BY <3>1 DEF Frees
    <3> HIDE DEF g
    <3> QED BY <3>2
  <2>2. CASE n # 0
    <3>1. n - 1 \in S
      BY <1>1, <2>2
    <3>2. PICK h : Frees(h, m, c, n - 1)
      BY <3>1
    <3> DEFINE g == [k \in 0..n |-> IF k = n THEN FreeNode(h[n - 1], c[n]) ELSE h[k]]
    <3>3. ASSUME NEW k \in 0..n
          PROVE  g[k] = IF k = 0 THEN m ELSE FreeNode(g[k - 1], c[k])
      <4>1. CASE k = n
        <5>1. g[k] = FreeNode(h[n - 1], c[n])
          BY <4>1
        <5>2. n - 1 \in 0..n /\ n - 1 # n
          BY <2>2
        <5>3. g[n - 1] = h[n - 1]
          BY <5>2
        <5> HIDE DEF g
        <5> QED BY <2>2, <4>1, <5>1, <5>3
      <4>2. CASE k # n /\ k = 0
        <5>1. g[k] = h[k] /\ k \in 0..n - 1
          BY <2>2, <4>2
        <5> HIDE DEF g
        <5> QED BY <3>2, <4>2, <5>1 DEF Frees
      <4>3. CASE k # n /\ k # 0
        <5>1. k \in 0..n - 1 /\ k - 1 \in 0..n /\ k - 1 # n
          BY <4>3
        <5>2. g[k] = h[k] /\ g[k - 1] = h[k - 1]
          BY <4>3, <5>1
        <5>3. h[k] = FreeNode(h[k - 1], c[k])
          BY <3>2, <4>3, <5>1 DEF Frees
        <5> HIDE DEF g
        <5> QED BY <4>3, <5>2, <5>3
      <4> QED BY <4>1, <4>2, <4>3
    <3>4. Frees(g, m, c, n)
      <4>1. g = [k \in 0..n |-> g[k]]
        OBVIOUS
      <4> HIDE DEF g
      <4> QED BY <3>3, <4>1 DEF Frees
    <3> HIDE DEF g
    <3> QED BY <3>4
  <2> QED BY <2>1, <2>2
<1> HIDE DEF S
<1>2. S \subseteq Nat
  BY DEF S
<1>3. \A n \in Nat : n \in S
  BY <1>1, <1>2, LeastFailure
<1> QED BY <1>3 DEF S

\* A queue whose nodes are all freed leaves nothing in use.
LEMMA AllFreedSound ==
    ASSUME NEW m, NEW U, NEW f, MemSound(m, U, f), NEW c \in Seq(Node),
           \A i, j \in 1..Len(c) : c[i] = c[j] => i = j,
           U = {c[i] : i \in 1..Len(c)}
    PROVE  \E d : MemSound(AllFreed(m, c), {}, d)
<1> DEFINE L == Len(c)
           freed[k \in 0..L] == IF k = 0 THEN m ELSE FreeNode(freed[k - 1], c[k])
           Left(k) == {c[i] : i \in k + 1..L}
           S == {k \in Nat : k <= L => \E d : MemSound(freed[k], Left(k), d)}
<1>1. L \in Nat
  BY LenProperties
<1>2. freed = [k \in 0..L |-> IF k = 0 THEN m ELSE FreeNode(freed[k - 1], c[k])]
  <2>1. PICK g : Frees(g, m, c, L)
    BY <1>1, FreedExists
  <2>2. g = [k \in 0..L |-> IF k = 0 THEN m ELSE FreeNode(g[k - 1], c[k])]
    BY <2>1 DEF Frees
  <2>3. \E h : h = [k \in 0..L |-> IF k = 0 THEN m ELSE FreeNode(h[k - 1], c[k])]
    BY <2>2
  <2> QED BY <2>3
<1>3. AllFreed(m, c) = freed[L]
  BY DEF AllFreed
<1> HIDE DEF freed
<1>4. ASSUME NEW k \in Nat, \A j \in 0..k - 1 : j \in S PROVE k \in S
  <2> SUFFICES ASSUME k <= L PROVE \E d : MemSound(freed[k], Left(k), d)
    OBVIOUS
  <2>1. CASE k = 0
    <3>1. freed[k] = m
      BY <1>1, <1>2, <2>1
    <3>2. Left(k) = U
      BY <2>1
    <3> QED BY <3>1, <3>2
  <2>2. CASE k # 0
    <3>1. k - 1 \in S /\ k - 1 <= L
      <4>1. k - 1 \in 0..k - 1 /\ k - 1 <= L
        BY <1>1, <2>2
      <4> HIDE DEF S, L
      <4> QED BY <1>4, <4>1
    <3>2. PICK d : MemSound(freed[k - 1], Left(k - 1), d)
      BY <3>1
    <3>3. c[k] \in Left(k - 1)
      BY <1>1, <2>2
    <3>4. freed[k] = FreeNode(freed[k - 1], c[k])
      BY <1>1, <1>2, <2>2
    <3>5. Left(k - 1) \ {c[k]} = Left(k)
      <4>1. \A i \in k..L : i = k \/ i \in k + 1..L
        BY <1>1
      <4>2. \A i \in k + 1..L : i \in k..L /\ c[i] # c[k]
        <5>1. \A i \in k + 1..L : i \in 1..Len(c) /\ k \in 1..Len(c) /\ i # k /\ i \in k..L
          BY <1>1, <2>2
        <5> QED BY <5>1
      <4>3. k - 1 + 1 = k
        OBVIOUS
      <4>4. Left(k - 1) = {c[i] : i \in k..L}
        BY <4>3
      <4> HIDE DEF L
      <4> QED BY <4>1, <4>2, <4>4
    <3> HIDE DEF Left
    <3>6. \E e : MemSound(FreeNode(freed[k - 1], c[k]), Left(k - 1) \ {c[k]}, e)
      BY <3>2, <3>3, FreeNodeSound
    <3> QED BY <3>4, <3>5, <3>6
  <2> QED BY <2>1, <2>2
<1>5. L \in S
  <2> HIDE DEF S
  <2>1. S \subseteq Nat
    BY DEF S
  <2> QED BY <1>1, <1>4, <2>1, LeastFailure
<1>6. Left(L) = {}
  <2>1. L + 1..L = {}
    BY <1>1
  <2> HIDE DEF L
  <2> QED BY <2>1
<1>7. \E d : MemSound(freed[L], Left(L), d)
  <2> HIDE DEF L, Left
  <2> QED BY <1>1, <1>5
<1> HIDE DEF Left, L, S
<1> QED BY <1>3, <1>6, <1>7

-------------------------------------------------------------------------------
\* The queue and the threads' hands.

\* What is queued or in a thread's hands.
InUse(q) == {q[i] : i \in 1..Len(q)} \cup InHand

Filled == {t \in Threads : pc[t] = "filled"}

\* The threads hold different nodes, outside of the queue, while they work.
HandsSound(q) ==
    /\ pc \in [Threads -> {"idle", "filled", "detached"}]
    /\ node \in [Threads -> Node \cup {NULL}]
    /\ \A t \in Threads : node[t] = NULL <=> pc[t] = "idle"
    /\ \A t, u \in Threads : t # u /\ node[t] # NULL => node[t] # node[u]
    /\ \A i \in 1..Len(q) : q[i] \notin InHand

\* The list q is what the links run through from _queue.first to _queue.last, and
\* it is sorted.
QueueSound(q) ==
    /\ IsChain(mem.next, qFirst, q)
    /\ qLast = IF q = <<>> THEN NULL ELSE q[Len(q)]
    /\ \A i, j \in 1..Len(q) : i <= j => entry[q[i]].prio <= entry[q[j]].prio

\* A node holds a value while it is in use, and no push is counted twice.
ValuesSound(q) ==
    /\ entry \in [Node -> Content \cup {NULL}]
    /\ \A n \in Node : entry[n] # NULL <=> n \in InUse(q)
    /\ pushes \in Nat /\ pushes + Cardinality(Filled) <= MaxPushes
    /\ dying = FALSE /\ cursor = NULL

Sound(q, f) == /\ HandsSound(q) /\ QueueSound(q) /\ ValuesSound(q)
               /\ MemSound(mem, InUse(q), f)

\* What every step preserves: the queue is some list q, the free nodes some list f.
IInv == \E q, f : Sound(q, f)

-------------------------------------------------------------------------------
\* What the steps have in common.

\* allocateNode, whichever way it goes.
LEMMA AllocateSound ==
    ASSUME NEW m, NEW U, NEW c, MemSound(m, U, c),
           NEW b, m.first = NULL => b \in Blocks \ m.live
    PROVE  LET n == AllocatedNode(m, b)
               r == AllocateNode(m, b)
           IN  /\ n \in Node \ U
               /\ \A x \in U : r.next[x] = m.next[x]
               /\ \E d : MemSound(r, U \cup {n}, d)
<1>1. CASE m.first = NULL
  BY <1>1, AllocateBlockSound
<1>2. CASE m.first # NULL
  <2> DEFINE n == AllocatedNode(m, b)
             r == AllocateNode(m, b)
  <2>1. n \in Node \ U /\ (\A x \in U : r.next[x] = m.next[x]) /\ MemSound(r, U \cup {n}, Tail(c))
    BY <1>2, AllocateListed
  <2> HIDE DEF n, r
  <2>2. \E d : MemSound(r, U \cup {n}, d)
    BY <2>1
  <2> QED BY <2>1, <2>2 DEF n, r
<1> QED BY <1>1, <1>2

\* Links of nodes in use are none of the free list's concern.
LEMMA LinksInUse ==
    ASSUME NEW m, NEW U, NEW f, MemSound(m, U, f),
           NEW nx \in [Node -> Node \cup {NULL}], \A x \in Node \ U : nx[x] = m.next[x]
    PROVE  LET r == [m EXCEPT !.next = nx] IN r.next = nx /\ MemSound(r, U, f)
<1> DEFINE r == [m EXCEPT !.next = nx]
<1>1. /\ MemType(m) /\ IsChain(m.next, m.first, f)
      /\ f \in Seq(Node) /\ \A i \in 1..Len(f) : f[i] \in Node
  BY ElementOfSeq DEF MemSound, Divided, IsChain
<1>2. r.next = nx /\ r.first = m.first /\ r.last = m.last /\ r.used = m.used
      /\ r.live = m.live
  BY <1>1 DEF MemType
<1>3. MemType(r)
  BY <1>1 DEF MemType
<1> HIDE DEF r
<1>4. ASSUME NEW i \in 1..Len(f) PROVE r.next[f[i]] = m.next[f[i]]
  BY <1>1, <1>2 DEF MemSound, Divided
<1>5. IsChain(r.next, r.first, f)
  BY <1>1, <1>2, <1>4 DEF IsChain
<1>6. MemSound(r, U, f)
  BY <1>2, <1>3, <1>5 DEF MemSound, Divided, Alive
<1> QED BY <1>2, <1>6 DEF r

\* The entries on a list of nodes that hold some.
LEMMA EntriesListed ==
    ASSUME NEW next, NEW n, NEW q, IsChain(next, n, q), NEW ent,
           \A i \in 1..Len(q) : ent[q[i]] \in Content
    PROVE  LET s == [i \in DOMAIN q |-> ent[q[i]]]
           IN  /\ Chain(next, n) = q
               /\ Len(q) \in Nat /\ DOMAIN q = 1..Len(q)
               /\ s \in Seq(Content) /\ Len(s) = Len(q)
               /\ \A i \in 1..Len(q) : s[i] = ent[q[i]]
<1> DEFINE s == [i \in DOMAIN q |-> ent[q[i]]]
<1>1. q \in Seq(Node) /\ Len(q) \in Nat /\ DOMAIN q = 1..Len(q)
  BY LenProperties DEF IsChain
<1>2. s \in [1..Len(q) -> Content] /\ \A i \in 1..Len(q) : s[i] = ent[q[i]]
  BY <1>1
<1> HIDE DEF s
<1>3. s \in Seq(Content) /\ Len(s) = Len(q)
  BY <1>1, <1>2, FunctionIsList
<1> QED BY <1>1, <1>2, <1>3, ChainIs DEF s

\* What an invariant state says of its parts.
LEMMA SoundParts ==
    ASSUME NEW q, NEW f, Sound(q, f)
    PROVE  /\ q \in Seq(Node) /\ Len(q) \in Nat
           /\ \A i \in 1..Len(q) : /\ q[i] \in Node /\ q[i] \in InUse(q)
                                   /\ q[i] \notin InHand /\ entry[q[i]] \in Content
           /\ InHand \subseteq InUse(q) /\ InUse(q) \in SUBSET Node
           /\ \A t \in Threads : pc[t] # "idle" =>
                node[t] \in InHand /\ node[t] \in Node /\ entry[node[t]] \in Content
           /\ MemType(mem)
           /\ IsFiniteSet(Filled) /\ Cardinality(Filled) \in Nat
           /\ NULL \notin Node /\ NULL \notin Content
<1>1. q \in Seq(Node) /\ Len(q) \in Nat /\ \A i \in 1..Len(q) : q[i] \in Node
  BY LenProperties, ElementOfSeq DEF Sound, QueueSound, IsChain
<1>2. NULL \notin Node /\ NULL \notin Content
  BY PQAssumption
<1>3. InUse(q) \in SUBSET Node /\ InHand \subseteq InUse(q)
      /\ \A i \in 1..Len(q) : q[i] \in InUse(q)
  BY <1>1 DEF InUse, InHand
<1>4. \A n \in InUse(q) : n \in Node /\ entry[n] \in Content
  BY <1>3 DEF Sound, ValuesSound
<1>5. \A i \in 1..Len(q) : q[i] \notin InHand
  BY DEF Sound, HandsSound
<1>6. ASSUME NEW t \in Threads, pc[t] # "idle" PROVE node[t] \in InHand /\ node[t] \in Node
  BY <1>6 DEF Sound, HandsSound, InHand
<1>7. IsFiniteSet(Filled) /\ Cardinality(Filled) \in Nat
  <2>1. Filled \in SUBSET Threads
    BY DEF Filled
  <2> QED BY <2>1, PQAssumption, FS_Subset, FS_CardinalityType
<1>8. MemType(mem)
  BY DEF Sound, MemSound, Divided
<1> QED BY <1>1, <1>2, <1>3, <1>4, <1>5, <1>6, <1>7, <1>8

-------------------------------------------------------------------------------
\* One step.

\* A push that takes a node leaves the queue alone.
LEMMA PushAllocateStep ==
    ASSUME NEW q, NEW f, Sound(q, f), NEW t \in Threads, NEW p \in Priority,
           NEW first \in BOOLEAN, PushAllocate(t, p, first)
    PROVE  IInv' /\ Entries(QueueChain)' = Entries(QueueChain)
<1> DEFINE U == InUse(q)
<1>1. /\ q \in Seq(Node) /\ Len(q) \in Nat
      /\ \A i \in 1..Len(q) : /\ q[i] \in Node /\ q[i] \in U
                              /\ q[i] \notin InHand /\ entry[q[i]] \in Content
      /\ InHand \subseteq U /\ U \in SUBSET Node /\ MemType(mem)
      /\ IsFiniteSet(Filled) /\ Cardinality(Filled) \in Nat
      /\ NULL \notin Node /\ NULL \notin Content
  BY SoundParts
<1>2. PICK b \in IF mem.first = NULL THEN Blocks \ mem.live ELSE {NULL} :
        /\ mem' = AllocateNode(mem, b)
        /\ node' = [node EXCEPT ![t] = AllocatedNode(mem, b)]
        /\ entry' = [entry EXCEPT ![AllocatedNode(mem, b)] =
                        [prio |-> p, first |-> first, id |-> 0]]
  BY DEF PushAllocate
<1> DEFINE n == AllocatedNode(mem, b)
           e == [prio |-> p, first |-> first, id |-> 0]
<1>3. /\ n \in Node \ U
      /\ \A x \in U : mem'.next[x] = mem.next[x]
      /\ \E d : MemSound(mem', U \cup {n}, d)
  <2>1. MemSound(mem, U, f) /\ (mem.first = NULL => b \in Blocks \ mem.live)
    BY <1>2 DEF Sound
  <2> HIDE DEF U
  <2>2. LET k == AllocatedNode(mem, b)
            r == AllocateNode(mem, b)
        IN  /\ k \in Node \ U
            /\ \A x \in U : r.next[x] = mem.next[x]
            /\ \E d : MemSound(r, U \cup {k}, d)
    BY <2>1, AllocateSound
  <2> QED BY <1>2, <2>2
<1>4. /\ node' = [node EXCEPT ![t] = n] /\ entry' = [entry EXCEPT ![n] = e]
      /\ pc' = [pc EXCEPT ![t] = "filled"] /\ pc[t] = "idle"
      /\ pushes + Cardinality(Filled) < MaxPushes
      /\ UNCHANGED <<qFirst, qLast, pushes, dying, cursor>>
  BY <1>2 DEF PushAllocate, Filled
<1>5. e \in Content /\ e # NULL
  BY <1>1, SpecAssumption DEF Content
<1> HIDE DEF n, e
<1>6. /\ node \in [Threads -> Node \cup {NULL}] /\ node[t] = NULL
      /\ pc \in [Threads -> {"idle", "filled", "detached"}]
      /\ \A v \in Threads : node[v] = NULL <=> pc[v] = "idle"
      /\ \A v, w \in Threads : v # w /\ node[v] # NULL => node[v] # node[w]
  BY <1>4 DEF Sound, HandsSound
<1>7. InHand' = InHand \cup {n}
  <2>1. ASSUME NEW x \in InHand PROVE x \in InHand'
    BY <1>1, <1>4, <1>6, <2>1 DEF InHand
  <2>2. n \in InHand'
    BY <1>3, <1>4, <1>6 DEF InHand
  <2>3. ASSUME NEW x \in InHand', x # n PROVE x \in InHand
    BY <1>4, <1>6, <2>3 DEF InHand
  <2> QED BY <2>1, <2>2, <2>3
<1>8. InUse(q)' = U \cup {n}
  BY <1>7 DEF InUse
<1>9. \A v \in Threads : node[v] # n
  BY <1>1, <1>3, <1>6 DEF InHand
<1>10. HandsSound(q)'
  <2>1. node' \in [Threads -> Node \cup {NULL}] /\ pc' \in [Threads -> {"idle", "filled", "detached"}]
    BY <1>3, <1>4, <1>6
  <2>2. \A v \in Threads : node'[v] = NULL <=> pc'[v] = "idle"
    BY <1>1, <1>3, <1>4, <1>6
  <2>3. \A v, w \in Threads : v # w /\ node'[v] # NULL => node'[v] # node'[w]
    BY <1>4, <1>6, <1>9
  <2>4. \A i \in 1..Len(q) : q[i] \notin InHand'
    BY <1>1, <1>3, <1>7
  <2> QED BY <2>1, <2>2, <2>3, <2>4 DEF HandsSound
<1>11. \A i \in 1..Len(q) : entry'[q[i]] = entry[q[i]] /\ mem'.next[q[i]] = mem.next[q[i]]
  <2>1. entry \in [Node -> Content \cup {NULL}]
    BY DEF Sound, ValuesSound
  <2> QED BY <1>1, <1>3, <1>4, <2>1
<1>12. QueueSound(q)'
  <2>1. IsChain(mem'.next, qFirst', q)
    BY <1>4, <1>11 DEF Sound, QueueSound, IsChain
  <2> QED BY <1>4, <1>11, <2>1 DEF Sound, QueueSound
<1>13. ValuesSound(q)'
  <2>1. entry' \in [Node -> Content \cup {NULL}]
    BY <1>3, <1>4, <1>5 DEF Sound, ValuesSound
  <2>2. \A x \in Node : entry'[x] # NULL <=> x \in InUse(q)'
    <3>1. \A x \in Node : entry'[x] = IF x = n THEN e ELSE entry[x]
      BY <1>3, <1>4 DEF Sound, ValuesSound
    <3>2. \A x \in Node : entry[x] # NULL <=> x \in U
      BY DEF Sound, ValuesSound
    <3> HIDE DEF U
    <3> QED BY <1>3, <1>5, <1>8, <3>1, <3>2
  <2>3. Filled' = Filled \cup {t} /\ t \notin Filled
    BY <1>4, <1>6 DEF Filled
  <2>4. Cardinality(Filled') = Cardinality(Filled) + 1
    BY <1>1, <2>3, AddOne
  <2>5. pushes' \in Nat /\ pushes' + Cardinality(Filled)' <= MaxPushes
    BY <1>1, <1>4, <2>4, SpecAssumption DEF Sound, ValuesSound
  <2> QED BY <1>4, <2>1, <2>2, <2>5 DEF Sound, ValuesSound
<1>14. IInv'
  BY <1>3, <1>8, <1>10, <1>12, <1>13 DEF IInv, Sound
<1>15. Entries(QueueChain)' = Entries(QueueChain)
  <2>1. IsChain(mem.next, qFirst, q) /\ IsChain(mem'.next, qFirst', q)
    BY <1>12 DEF Sound, QueueSound
  <2>2. QueueChain = q /\ QueueChain' = q /\ DOMAIN q = 1..Len(q)
    BY <1>1, <2>1, ChainIs, LenProperties DEF QueueChain
  <2> QED BY <1>11, <2>2 DEF Entries
<1> QED BY <1>14, <1>15

\* A pop takes the head of the queue into its thread's hand.
LEMMA PopDetachStep ==
    ASSUME NEW q, NEW f, Sound(q, f), NEW t \in Threads, PopDetach(t)
    PROVE  /\ IInv'
           /\ Entries(QueueChain) # <<>>
           /\ Entries(QueueChain)' = Tail(Entries(QueueChain))
           /\ pushes' = pushes
<1> DEFINE U == InUse(q)
           n == qFirst
           d == Tail(q)
<1>1. /\ q \in Seq(Node) /\ Len(q) \in Nat
      /\ \A i \in 1..Len(q) : /\ q[i] \in Node /\ q[i] \in U
                              /\ q[i] \notin InHand /\ entry[q[i]] \in Content
      /\ InHand \subseteq U /\ U \in SUBSET Node /\ MemType(mem)
      /\ NULL \notin Node /\ NULL \notin Content
  BY SoundParts
<1>2. /\ node' = [node EXCEPT ![t] = n] /\ pc' = [pc EXCEPT ![t] = "detached"]
      /\ pc[t] = "idle" /\ n # NULL
      /\ mem' = [mem EXCEPT !.next[n] = NULL]
      /\ IF qFirst = qLast THEN qFirst' = NULL /\ qLast' = NULL
                           ELSE qFirst' = mem.next[qFirst] /\ qLast' = qLast
      /\ UNCHANGED <<entry, pushes, dying, cursor>>
  BY DEF PopDetach
<1>3. q # <<>> /\ IsChain(mem.next, n, q)
  <2>1. IsChain(mem.next, n, q)
    BY DEF Sound, QueueSound
  <2> QED BY <1>2, <2>1 DEF IsChain, Behind
<1> DEFINE nx == [mem.next EXCEPT ![n] = NULL]
<1>4. n = q[1] /\ n \in Node /\ n \in U /\ n \notin InHand /\ Len(q) \in Nat \ {0}
  <2>1. Len(q) \in Nat \ {0} /\ n = q[1]
    BY <1>1, <1>3, EmptySeq DEF IsChain, Behind
  <2> QED BY <1>1, <2>1
<1>5. nx \in [Node -> Node \cup {NULL}] /\ \A x \in Node \ {n} : nx[x] = mem.next[x]
  BY <1>1, <1>4 DEF MemType
<1>6. mem' = [mem EXCEPT !.next = nx]
  BY <1>2
<1>7. mem'.next = nx /\ MemSound(mem', U, f)
  <2>1. MemSound(mem, U, f)
    BY DEF Sound
  <2>2. \A x \in Node \ U : nx[x] = mem.next[x]
    BY <1>4, <1>5
  <2> HIDE DEF nx, U
  <2>3. LET r == [mem EXCEPT !.next = nx] IN r.next = nx /\ MemSound(r, U, f)
    BY <1>5, <2>1, <2>2, LinksInUse
  <2> QED BY <1>6, <2>3
<1>8. /\ IsChain(nx, mem.next[n], d)
      /\ Len(d) = Len(q) - 1
      /\ \A i \in 1..Len(q) - 1 : d[i] = q[i + 1]
      /\ \A x : InList(x, d) <=> InList(x, q) /\ x # n
  <2>1. ASSUME NEW i \in 2..Len(q) PROVE nx[q[i]] = mem.next[q[i]]
    <3>1. i \in 1..Len(q) /\ 1 \in 1..Len(q) /\ i # 1
      BY <1>1
    <3>2. q[i] # n /\ q[i] \in Node
      BY <1>1, <1>3, <1>4, <3>1 DEF IsChain
    <3> QED BY <1>5, <3>2
  <2> HIDE DEF nx, n, d, U
  <2>2. /\ IsChain(nx, mem.next[n], Tail(q)) /\ Len(Tail(q)) = Len(q) - 1
        /\ \A i \in 1..Len(q) - 1 : Tail(q)[i] = q[i + 1]
        /\ \A x : InList(x, Tail(q)) <=> InList(x, q) /\ x # n
    BY <1>3, <2>1, ChainTail, SMTT(30)
  <2> QED BY <2>2 DEF d
<1> HIDE DEF nx, d
<1>9. d \in Seq(Node) /\ Len(d) \in Nat
  BY <1>1, <1>3, <1>4, <1>8 DEF IsChain
<1>10. Len(q) \in 1..Len(q) /\ 1 \in 1..Len(q) /\ qLast = q[Len(q)]
  BY <1>3, <1>4 DEF Sound, QueueSound
<1>11. (qFirst = qLast => d = <<>> /\ mem.next[n] = NULL) /\ (qFirst # qLast => Len(q) # 1)
  <2>1. qFirst = qLast => Len(q) = 1
    BY <1>3, <1>4, <1>10 DEF IsChain
  <2>2. Len(q) = 1 => d = <<>>
    BY <1>8, <1>9, EmptySeq
  <2>3. d = <<>> => mem.next[n] = NULL
    BY <1>8 DEF IsChain, Behind
  <2>4. qFirst # qLast => Len(q) # 1
    BY <1>4, <1>10
  <2> QED BY <2>1, <2>2, <2>3, <2>4
<1>12. qFirst' = mem.next[n]
  BY <1>2, <1>11
<1>13. qLast' = IF d = <<>> THEN NULL ELSE d[Len(d)]
  <2>1. CASE qFirst = qLast
    BY <1>2, <1>11, <2>1
  <2>2. CASE qFirst # qLast
    <3>1. Len(d) \in 1..Len(q) - 1 /\ Len(d) # 0 /\ Len(d) + 1 = Len(q)
      BY <1>4, <1>8, <1>11, <2>2
    <3>2. d # <<>> /\ d[Len(d)] = q[Len(q)]
      BY <1>8, <1>9, <3>1, EmptySeq
    <3> QED BY <1>2, <1>10, <2>2, <3>2
  <2> QED BY <2>1, <2>2
<1>14. QueueSound(d)'
  <2>1. IsChain(mem'.next, qFirst', d)
    BY <1>7, <1>8, <1>12
  <2>2. ASSUME NEW i \in 1..Len(d), NEW j \in 1..Len(d), i <= j
        PROVE  entry'[d[i]].prio <= entry'[d[j]].prio
    <3>1. /\ i + 1 \in 1..Len(q) /\ j + 1 \in 1..Len(q) /\ i + 1 <= j + 1
          /\ d[i] = q[i + 1] /\ d[j] = q[j + 1]
      BY <1>4, <1>8, <2>2
    <3>2. entry[q[i + 1]].prio <= entry[q[j + 1]].prio
      BY <3>1 DEF Sound, QueueSound
    <3> QED BY <1>2, <3>1, <3>2
  <2> QED BY <1>13, <2>1, <2>2 DEF QueueSound
<1> HIDE DEF n
<1>15. /\ node \in [Threads -> Node \cup {NULL}] /\ node[t] = NULL
       /\ pc \in [Threads -> {"idle", "filled", "detached"}]
       /\ \A v \in Threads : node[v] = NULL <=> pc[v] = "idle"
       /\ \A v, w \in Threads : v # w /\ node[v] # NULL => node[v] # node[w]
  BY <1>2 DEF Sound, HandsSound
<1>16. InHand' = InHand \cup {n}
  <2>1. ASSUME NEW x \in InHand PROVE x \in InHand'
    BY <1>1, <1>2, <1>15, <2>1 DEF InHand
  <2>2. n \in InHand'
    BY <1>2, <1>4, <1>15 DEF InHand
  <2>3. ASSUME NEW x \in InHand', x # n PROVE x \in InHand
    BY <1>2, <1>15, <2>3 DEF InHand
  <2> QED BY <2>1, <2>2, <2>3
<1>17. InUse(d)' = U
  <2>1. \A x : x \in InUse(d)' <=> InList(x, d) \/ x \in InHand'
    BY DEF InUse, InList
  <2>2. \A x : x \in U <=> InList(x, q) \/ x \in InHand
    BY DEF InUse, InList
  <2>3. InList(n, q)
    BY <1>4, <1>10 DEF InList
  <2> HIDE DEF U
  <2> QED BY <1>8, <1>16, <2>1, <2>2, <2>3
<1>18. HandsSound(d)'
  <2>1. node' \in [Threads -> Node \cup {NULL}] /\ pc' \in [Threads -> {"idle", "filled", "detached"}]
    BY <1>2, <1>4, <1>15
  <2>2. \A v \in Threads : node'[v] = NULL <=> pc'[v] = "idle"
    BY <1>2, <1>15
  <2>3. \A v \in Threads : node[v] # n
    BY <1>4, <1>15 DEF InHand
  <2>4. \A v, w \in Threads : v # w /\ node'[v] # NULL => node'[v] # node'[w]
    BY <1>2, <1>15, <2>3
  <2>5. ASSUME NEW i \in 1..Len(d) PROVE d[i] \notin InHand'
    <3>1. InList(d[i], q) /\ d[i] # n
      BY <1>8 DEF InList
    <3> QED BY <1>1, <1>16, <3>1 DEF InList
  <2> QED BY <2>1, <2>2, <2>4, <2>5 DEF HandsSound
<1>19. ValuesSound(d)'
  <2>1. Filled' = Filled
    BY <1>2, <1>15 DEF Filled
  <2> QED BY <1>2, <1>17, <2>1 DEF Sound, ValuesSound
<1>20. IInv'
  BY <1>7, <1>14, <1>17, <1>18, <1>19 DEF IInv, Sound
<1> DEFINE s == [i \in DOMAIN q |-> entry[q[i]]]
           s2 == [i \in DOMAIN d |-> entry'[d[i]]]
<1>21. /\ QueueChain = q /\ s \in Seq(Content) /\ Len(s) = Len(q)
       /\ \A i \in 1..Len(q) : s[i] = entry[q[i]]
  <2>1. \A i \in 1..Len(q) : entry[q[i]] \in Content
    BY <1>1
  <2> QED BY <1>3, <2>1, EntriesListed DEF QueueChain, n
<1>22. /\ QueueChain' = d /\ s2 \in Seq(Content) /\ Len(s2) = Len(d)
       /\ \A i \in 1..Len(d) : s2[i] = entry'[d[i]]
  <2>1. ASSUME NEW i \in 1..Len(d) PROVE entry'[d[i]] \in Content
    <3>1. InList(d[i], q)
      BY <1>8 DEF InList
    <3> QED BY <1>1, <1>2, <3>1 DEF InList
  <2>2. IsChain(mem'.next, qFirst', d)
    BY <1>14 DEF QueueSound
  <2> QED BY <2>1, <2>2, EntriesListed DEF QueueChain
<1> HIDE DEF s, s2
<1>23. s # <<>>
  BY <1>4, <1>21, EmptySeq
<1>24. s2 = Tail(s)
  <2>1. /\ Tail(s) \in Seq(Content) /\ Len(Tail(s)) = Len(s) - 1
        /\ \A i \in 1..Len(Tail(s)) : Tail(s)[i] = s[i + 1]
    BY <1>21, <1>23, HeadTailProperties
  <2>2. ASSUME NEW i \in 1..Len(s2) PROVE s2[i] = Tail(s)[i]
    <3>1. i \in 1..Len(d) /\ i \in 1..Len(q) - 1 /\ i + 1 \in 1..Len(q) /\ i \in 1..Len(Tail(s))
      BY <1>4, <1>8, <1>21, <1>22, <2>1
    <3>2. s2[i] = entry[q[i + 1]]
      BY <1>2, <1>8, <1>22, <3>1
    <3>3. Tail(s)[i] = entry[q[i + 1]]
      BY <1>21, <2>1, <3>1
    <3> QED BY <3>2, <3>3
  <2>3. Len(s2) = Len(Tail(s))
    BY <1>8, <1>21, <1>22, <2>1
  <2> QED BY <1>22, <2>1, <2>2, <2>3, SeqEqual
<1>25. Entries(QueueChain) = s /\ Entries(QueueChain)' = s2
  BY <1>21, <1>22 DEF Entries, s, s2
<1> QED BY <1>2, <1>20, <1>23, <1>24, <1>25

\* A pop that frees its node leaves the queue alone.
LEMMA PopFreeStep ==
    ASSUME NEW q, NEW f, Sound(q, f), NEW t \in Threads, PopFree(t)
    PROVE  IInv' /\ Entries(QueueChain)' = Entries(QueueChain)
<1> DEFINE U == InUse(q)
           n == node[t]
<1>1. /\ q \in Seq(Node) /\ Len(q) \in Nat
      /\ \A i \in 1..Len(q) : /\ q[i] \in Node /\ q[i] \in U
                              /\ q[i] \notin InHand /\ entry[q[i]] \in Content
      /\ InHand \subseteq U /\ U \in SUBSET Node /\ MemType(mem)
      /\ NULL \notin Node /\ NULL \notin Content
      /\ pc[t] # "idle" => n \in InHand /\ n \in Node
  BY SoundParts
<1>2. /\ entry' = [entry EXCEPT ![n] = NULL] /\ mem' = FreeNode(mem, n)
      /\ node' = [node EXCEPT ![t] = NULL] /\ pc' = [pc EXCEPT ![t] = "idle"]
      /\ pc[t] = "detached"
      /\ UNCHANGED <<qFirst, qLast, pushes, dying, cursor>>
  BY DEF PopFree
<1>3. n \in InHand /\ n \in Node /\ n \in U
  BY <1>1, <1>2
<1>4. /\ \A x \in U \ {n} : mem'.next[x] = mem.next[x]
      /\ \E d : MemSound(mem', U \ {n}, d)
  <2>1. MemSound(mem, U, f)
    BY DEF Sound
  <2> HIDE DEF U, n
  <2>2. LET r == FreeNode(mem, n)
        IN  /\ \A x \in U \ {n} : r.next[x] = mem.next[x]
            /\ \E d : MemSound(r, U \ {n}, d)
    BY <1>3, <2>1, FreeNodeSound
  <2> QED BY <1>2, <2>2
<1> HIDE DEF n
<1>5. /\ node \in [Threads -> Node \cup {NULL}] /\ node[t] = n
      /\ pc \in [Threads -> {"idle", "filled", "detached"}]
      /\ \A v \in Threads : node[v] = NULL <=> pc[v] = "idle"
      /\ \A v, w \in Threads : v # w /\ node[v] # NULL => node[v] # node[w]
  BY DEF Sound, HandsSound, n
<1>6. InHand' = InHand \ {n}
  <2>1. ASSUME NEW x \in InHand, x # n PROVE x \in InHand'
    BY <1>1, <1>2, <1>5, <2>1 DEF InHand
  <2>2. n \notin InHand'
    BY <1>1, <1>2, <1>3, <1>5 DEF InHand
  <2>3. ASSUME NEW x \in InHand' PROVE x \in InHand
    BY <1>1, <1>2, <1>5, <2>3 DEF InHand
  <2> QED BY <2>1, <2>2, <2>3
<1>7. \A i \in 1..Len(q) : q[i] # n
  BY <1>1, <1>3
<1>8. InUse(q)' = U \ {n}
  BY <1>6, <1>7 DEF InUse
<1>9. HandsSound(q)'
  <2>1. node' \in [Threads -> Node \cup {NULL}] /\ pc' \in [Threads -> {"idle", "filled", "detached"}]
    BY <1>2, <1>5
  <2>2. \A v \in Threads : node'[v] = NULL <=> pc'[v] = "idle"
    BY <1>2, <1>5
  <2>3. \A v, w \in Threads : v # w /\ node'[v] # NULL => node'[v] # node'[w]
    BY <1>2, <1>5
  <2>4. \A i \in 1..Len(q) : q[i] \notin InHand'
    BY <1>1, <1>6
  <2> QED BY <2>1, <2>2, <2>3, <2>4 DEF HandsSound
<1>10. \A i \in 1..Len(q) : entry'[q[i]] = entry[q[i]] /\ mem'.next[q[i]] = mem.next[q[i]]
  <2>1. entry \in [Node -> Content \cup {NULL}]
    BY DEF Sound, ValuesSound
  <2> QED BY <1>1, <1>2, <1>4, <1>7, <2>1
<1>11. QueueSound(q)'
  <2>1. IsChain(mem'.next, qFirst', q)
    BY <1>2, <1>10 DEF Sound, QueueSound, IsChain
  <2> QED BY <1>2, <1>10, <2>1 DEF Sound, QueueSound
<1>12. ValuesSound(q)'
  <2>1. \A x \in Node : entry'[x] = IF x = n THEN NULL ELSE entry[x]
    BY <1>2, <1>3 DEF Sound, ValuesSound
  <2>2. \A x \in Node : entry[x] # NULL <=> x \in U
    BY DEF Sound, ValuesSound
  <2>3. \A x \in Node : entry'[x] # NULL <=> x \in InUse(q)'
    <3> HIDE DEF U
    <3> QED BY <1>8, <2>1, <2>2
  <2>4. entry' \in [Node -> Content \cup {NULL}]
    BY <1>2, <1>3 DEF Sound, ValuesSound
  <2>5. Filled' = Filled
    BY <1>2, <1>5 DEF Filled
  <2> QED BY <1>2, <2>3, <2>4, <2>5 DEF Sound, ValuesSound
<1>13. IInv'
  BY <1>4, <1>8, <1>9, <1>11, <1>12 DEF IInv, Sound
<1>14. Entries(QueueChain)' = Entries(QueueChain)
  <2>1. IsChain(mem.next, qFirst, q) /\ IsChain(mem'.next, qFirst', q)
    BY <1>11 DEF Sound, QueueSound
  <2>2. QueueChain = q /\ QueueChain' = q /\ DOMAIN q = 1..Len(q)
    BY <1>1, <2>1, ChainIs, LenProperties DEF QueueChain
  <2> QED BY <1>10, <2>2 DEF Entries
<1> QED BY <1>13, <1>14

\* clear leaves no node in use.
LEMMA ClearStep ==
    ASSUME NEW q, NEW f, Sound(q, f), Clear
    PROVE  /\ IInv'
           /\ Entries(QueueChain) # <<>>
           /\ Entries(QueueChain)' = <<>>
           /\ pushes' = pushes
<1>1. /\ q \in Seq(Node) /\ Len(q) \in Nat
      /\ \A i \in 1..Len(q) : q[i] \in Node /\ entry[q[i]] \in Content
      /\ NULL \notin Node /\ NULL \notin Content
  BY SoundParts
<1>2. /\ qFirst # NULL /\ \A t \in Threads : pc[t] = "idle"
      /\ mem' = AllFreed(mem, QueueChain)
      /\ entry' = [n \in Node |-> NULL]
      /\ qFirst' = NULL /\ qLast' = NULL
      /\ UNCHANGED <<pc, node, pushes, dying, cursor>>
  BY DEF Clear
<1>3. IsChain(mem.next, qFirst, q) /\ QueueChain = q
  BY ChainIs DEF Sound, QueueSound, QueueChain
<1>4. InHand = {} /\ InHand' = {}
  BY <1>1, <1>2 DEF Sound, HandsSound, InHand
<1>5. PICK d : MemSound(mem', {}, d)
  <2> DEFINE U == {q[i] : i \in 1..Len(q)}
  <2>1. MemSound(mem, U, f)
    BY <1>4 DEF Sound, InUse
  <2>2. \A i, j \in 1..Len(q) : q[i] = q[j] => i = j
    BY <1>3 DEF IsChain
  <2>3. U = {q[i] : i \in 1..Len(q)}
    OBVIOUS
  <2> HIDE DEF U
  <2>4. \E d : MemSound(AllFreed(mem, q), {}, d)
    BY <1>1, <2>1, <2>2, <2>3, AllFreedSound
  <2> QED BY <1>2, <1>3, <2>4
<1>6. Len(<<>>) = 0 /\ <<>> \in Seq(Node) /\ <<>> \in Seq(Content)
  BY EmptySeq
<1>7. IsChain(mem'.next, qFirst', <<>>)
  BY <1>2, <1>6 DEF IsChain, Behind
<1>8. InUse(<<>>)' = {}
  BY <1>4, <1>6 DEF InUse
<1>9. HandsSound(<<>>)'
  BY <1>2, <1>6 DEF Sound, HandsSound
<1>10. QueueSound(<<>>)'
  BY <1>2, <1>6, <1>7 DEF QueueSound
<1>11. ValuesSound(<<>>)'
  <2>1. Filled' = Filled
    BY <1>2 DEF Filled
  <2> QED BY <1>2, <1>8, <2>1 DEF Sound, ValuesSound
<1>12. IInv'
  BY <1>5, <1>8, <1>9, <1>10, <1>11 DEF IInv, Sound
<1>13. Entries(QueueChain)' = <<>>
  <2>1. QueueChain' = <<>>
    BY <1>7, ChainIs DEF QueueChain
  <2>2. DOMAIN QueueChain' = {}
    BY <2>1, EmptySeq
  <2> QED BY <2>2 DEF Entries
<1>14. Entries(QueueChain) # <<>>
  <2>1. Len(q) # 0
    BY <1>2, <1>3 DEF IsChain, Behind
  <2>2. LET s == [i \in DOMAIN q |-> entry[q[i]]] IN s \in Seq(Content) /\ Len(s) = Len(q)
    BY <1>1, <1>3, EntriesListed
  <2>3. Entries(q) # <<>>
    BY <1>6, <2>1, <2>2 DEF Entries
  <2> QED BY <1>3, <2>3
<1> QED BY <1>2, <1>12, <1>13, <1>14

\* k is where n belongs in the queue q, and nx are the links with n put there.
PutAt(q, n, k, nx) ==
    /\ k \in 1..Len(q) + 1
    /\ \A i \in 1..Len(q) : StaysAhead(entry[q[i]], entry[n].prio, entry[n].first) <=> i < k
    /\ nx \in [Node -> Node \cup {NULL}]
    /\ nx[n] = Behind(q, k - 1)
    /\ \A i \in 1..Len(q) : nx[q[i]] = IF i = k - 1 THEN n ELSE mem.next[q[i]]
    /\ \A x \in Node : x # n /\ ~InList(x, q) => nx[x] = mem.next[x]

\* pushNode's four ways of linking a node all put it where it belongs: before the
\* head, at the end, or behind the node its walk stops at.
LEMMA LinkPlace ==
    ASSUME NEW q, NEW f, Sound(q, f), NEW t \in Threads, PushLink(t)
    PROVE  \E k, nx : /\ PutAt(q, node[t], k, nx) /\ mem' = [mem EXCEPT !.next = nx]
                      /\ qFirst' = IF k = 1 THEN node[t] ELSE qFirst
                      /\ qLast' = IF k = Len(q) + 1 THEN node[t] ELSE qLast
<1> DEFINE n == node[t]
           p == entry[n].prio
           first == entry[n].first
           Ahead(i) == StaysAhead(entry[q[i]], p, first)
<1>1. /\ q \in Seq(Node) /\ Len(q) \in Nat
      /\ \A i \in 1..Len(q) : /\ q[i] \in Node /\ q[i] \notin InHand
                              /\ entry[q[i]] \in Content
      /\ n \in InHand /\ n \in Node /\ entry[n] \in Content
      /\ MemType(mem) /\ NULL \notin Node
  BY SoundParts DEF PushLink
<1>2. /\ IsChain(mem.next, qFirst, q)
      /\ qLast = IF q = <<>> THEN NULL ELSE q[Len(q)]
      /\ \A i, j \in 1..Len(q) : i <= j => entry[q[i]].prio <= entry[q[j]].prio
  BY DEF Sound, QueueSound
<1>3. /\ mem.next \in [Node -> Node \cup {NULL}]
      /\ \A i \in 1..Len(q) : q[i] # n
  BY <1>1 DEF MemType
<1>4. ASSUME NEW i \in 1..Len(q), NEW j \in 1..Len(q), i <= j, Ahead(j) PROVE Ahead(i)
  <2>1. entry[q[i]].prio <= entry[q[j]].prio
    BY <1>2, <1>4
  <2>2. entry[q[i]].prio \in Int /\ entry[q[j]].prio \in Int /\ p \in Int
    BY <1>1, SpecAssumption DEF Content
  <2> QED BY <1>4, <2>1, <2>2 DEF StaysAhead
<1>5. q # <<>> => Len(q) \in Nat \ {0} /\ 1 \in 1..Len(q) /\ Len(q) \in 1..Len(q)
  BY <1>1, EmptySeq
<1>6. Len(<<>>) = 0
  BY EmptySeq
<1>7. qFirst = (IF q = <<>> THEN NULL ELSE q[1]) /\ (qFirst = NULL <=> q = <<>>)
  BY <1>1, <1>2, <1>5, <1>6 DEF IsChain, Behind
<1>8. CASE qFirst = NULL
  <2> DEFINE nx == [mem.next EXCEPT ![n] = NULL]
  <2>1. q = <<>> /\ Len(q) = 0
    BY <1>6, <1>7, <1>8
  <2>2. mem' = [mem EXCEPT !.next = nx] /\ qFirst' = n /\ qLast' = n
    BY <1>8 DEF PushLink
  <2>3. nx \in [Node -> Node \cup {NULL}] /\ nx[n] = NULL
        /\ \A x \in Node : x # n => nx[x] = mem.next[x]
    BY <1>1, <1>3
  <2> HIDE DEF nx
  <2>4. PutAt(q, n, 1, nx)
    BY <2>1, <2>3 DEF PutAt, Behind
  <2> QED BY <2>1, <2>2, <2>4
<1>9. CASE qFirst # NULL /\ ~StaysAhead(entry[qFirst], p, first)
  <2> DEFINE nx == [mem.next EXCEPT ![n] = qFirst]
  <2>1. q # <<>> /\ qFirst = q[1] /\ Len(q) \in Nat \ {0} /\ 1 \in 1..Len(q)
    BY <1>5, <1>7, <1>9
  <2>2. mem' = [mem EXCEPT !.next = nx] /\ qFirst' = n /\ qLast' = qLast
    BY <1>9 DEF PushLink
  <2>3. nx \in [Node -> Node \cup {NULL}] /\ nx[n] = qFirst
        /\ \A x \in Node : x # n => nx[x] = mem.next[x]
    BY <1>1, <1>3, <2>1
  <2> HIDE DEF nx
  <2>4. ASSUME NEW i \in 1..Len(q) PROVE ~Ahead(i)
    BY <1>4, <1>9, <2>1
  <2>5. ASSUME NEW i \in 1..Len(q) PROVE nx[q[i]] = mem.next[q[i]]
    BY <1>1, <1>3, <2>3
  <2>6. PutAt(q, n, 1, nx)
    <3>1. 1 \in 1..Len(q) + 1 /\ nx[n] = Behind(q, 1 - 1)
      BY <2>1, <2>3 DEF Behind
    <3>2. \A i \in 1..Len(q) : Ahead(i) <=> i < 1
      BY <2>1, <2>4
    <3>3. \A i \in 1..Len(q) : nx[q[i]] = IF i = 1 - 1 THEN n ELSE mem.next[q[i]]
      BY <2>1, <2>5
    <3> QED BY <2>3, <3>1, <3>2, <3>3 DEF PutAt
  <2>7. 1 # Len(q) + 1
    BY <2>1
  <2> QED BY <2>2, <2>6, <2>7
<1>10. CASE qFirst # NULL /\ StaysAhead(entry[qLast], p, first)
  <2> DEFINE nx == [mem.next EXCEPT ![n] = NULL, ![qLast] = n]
             k == Len(q) + 1
  <2>1. /\ q # <<>> /\ qFirst = q[1] /\ qLast = q[Len(q)]
        /\ Len(q) \in Nat \ {0} /\ 1 \in 1..Len(q) /\ Len(q) \in 1..Len(q)
    BY <1>2, <1>5, <1>7, <1>10
  <2>2. ASSUME NEW i \in 1..Len(q) PROVE Ahead(i)
    BY <1>4, <1>10, <2>1
  <2>3. StaysAhead(entry[qFirst], p, first)
    BY <2>1, <2>2
  <2>4. mem' = [mem EXCEPT !.next = nx] /\ qFirst' = qFirst /\ qLast' = n
    <3>1. /\ mem' = [mem EXCEPT !.next[n] = NULL, !.next[qLast] = n]
          /\ qFirst' = qFirst /\ qLast' = n
      BY <1>10, <2>3 DEF PushLink
    <3>2. [mem EXCEPT !.next[n] = NULL, !.next[qLast] = n] = [mem EXCEPT !.next = nx]
      BY <1>1 DEF MemType
    <3> QED BY <3>1, <3>2
  <2>5. /\ nx \in [Node -> Node \cup {NULL}] /\ nx[n] = NULL /\ nx[qLast] = n
        /\ \A x \in Node : x # n /\ x # qLast => nx[x] = mem.next[x]
    BY <1>1, <1>3, <2>1
  <2> HIDE DEF nx
  <2>6. ASSUME NEW i \in 1..Len(q)
        PROVE  nx[q[i]] = IF i = k - 1 THEN n ELSE mem.next[q[i]]
    <3>1. CASE i = Len(q)
      BY <2>1, <2>5, <3>1
    <3>2. CASE i # Len(q)
      <4>1. q[i] # qLast /\ q[i] # n /\ q[i] \in Node
        BY <1>1, <1>2, <1>3, <2>1, <3>2 DEF IsChain
      <4>2. i # k - 1
        BY <2>1, <3>2
      <4> QED BY <2>5, <4>1, <4>2
    <3> QED BY <3>1, <3>2
  <2>7. PutAt(q, n, k, nx)
    <3>1. k \in 1..Len(q) + 1 /\ nx[n] = Behind(q, k - 1)
      BY <2>1, <2>5 DEF Behind
    <3>2. \A i \in 1..Len(q) : Ahead(i) <=> i < k
      BY <2>1, <2>2
    <3>3. \A x \in Node : x # n /\ ~InList(x, q) => nx[x] = mem.next[x]
      BY <2>1, <2>5 DEF InList
    <3> HIDE DEF k
    <3> QED BY <2>5, <2>6, <3>1, <3>2, <3>3 DEF PutAt
  <2>8. k # 1 /\ k = Len(q) + 1
    BY <2>1
  <2> QED BY <2>4, <2>7, <2>8
<1>11. CASE /\ qFirst # NULL /\ StaysAhead(entry[qFirst], p, first)
            /\ ~StaysAhead(entry[qLast], p, first)
  <2> DEFINE S == {i \in DOMAIN q : i = Len(q) \/ ~Ahead(i + 1)}
             j == Min(S)
             w == q[j]
             nx == [mem.next EXCEPT ![n] = mem.next[w], ![w] = n]
             k == j + 1
  <2>1. /\ q # <<>> /\ qFirst = q[1] /\ qLast = q[Len(q)]
        /\ Len(q) \in Nat \ {0} /\ 1 \in 1..Len(q) /\ Len(q) \in 1..Len(q)
        /\ Ahead(1) /\ ~Ahead(Len(q)) /\ DOMAIN q = 1..Len(q)
    BY <1>1, <1>2, <1>5, <1>7, <1>11, LenProperties
  <2>2. /\ mem' = [mem EXCEPT !.next = nx] /\ qFirst' = qFirst /\ qLast' = qLast
        /\ QueueChain = q
    <3>1. QueueChain = q
      BY <1>2, ChainIs DEF QueueChain
    <3>2. WalkStop(q, p, first) = w
      BY DEF WalkStop
    <3>3. /\ mem' = [mem EXCEPT !.next[n] = mem.next[w], !.next[w] = n]
          /\ qFirst' = qFirst /\ qLast' = qLast
      BY <1>11, <3>1, <3>2 DEF PushLink
    <3> HIDE DEF w
    <3>4. [mem EXCEPT !.next[n] = mem.next[w], !.next[w] = n] = [mem EXCEPT !.next = nx]
      BY <1>1 DEF MemType
    <3> QED BY <3>1, <3>3, <3>4
  <2>3. j \in S /\ \A i \in S : j <= i
    <3>1. Len(q) \in S /\ S \subseteq Nat
      BY <2>1
    <3> HIDE DEF S
    <3> QED BY <3>1, LeastNatural
  <2> HIDE DEF j
  <2>4. j \in 1..Len(q) - 1 /\ ~Ahead(j + 1)
    <3>1. j \in 1..Len(q)
      BY <2>1, <2>3
    <3>2. Len(q) # 1
      BY <2>1
    <3>3. Len(q) - 1 \in S
      <4>1. Len(q) - 1 \in 1..Len(q) /\ Len(q) - 1 + 1 = Len(q)
        BY <2>1, <3>2
      <4>2. ~Ahead(Len(q) - 1 + 1)
        BY <2>1, <4>1
      <4> QED BY <2>1, <4>1, <4>2
    <3>4. j <= Len(q) - 1
      BY <2>3, <3>3
    <3> QED BY <2>1, <2>3, <3>1, <3>4
  <2>5. ASSUME NEW i \in 1..Len(q), i <= j PROVE Ahead(i)
    <3>1. CASE i = 1
      BY <2>1, <3>1
    <3>2. CASE i # 1
      <4>1. i - 1 \in 1..Len(q) /\ ~(j <= i - 1) /\ i - 1 + 1 = i
        BY <2>1, <2>4, <2>5, <3>2
      <4>2. i - 1 \notin S
        BY <2>3, <4>1
      <4> QED BY <2>1, <4>1, <4>2
    <3> QED BY <3>1, <3>2
  <2> HIDE DEF S
  <2>6. \A i \in 1..Len(q) : Ahead(i) <=> i < k
    <3>1. ASSUME NEW i \in 1..Len(q), Ahead(i) PROVE i < k
      <4>1. j + 1 \in 1..Len(q) /\ j + 1 # i
        BY <2>1, <2>4, <3>1
      <4>2. ~(j + 1 <= i)
        BY <1>4, <2>4, <3>1, <4>1
      <4> QED BY <2>1, <2>4, <4>2
    <3>2. ASSUME NEW i \in 1..Len(q), i < k PROVE Ahead(i)
      <4>1. i <= j
        BY <2>1, <2>4, <3>2
      <4> QED BY <2>5, <4>1
    <3> QED BY <3>1, <3>2
  <2>7. w \in Node /\ w # n /\ mem.next[w] = Behind(q, j) /\ j \in 1..Len(q)
    BY <1>1, <1>2, <1>3, <2>1, <2>4 DEF IsChain
  <2>8. mem.next[w] \in Node \cup {NULL}
    BY <1>3, <2>7
  <2>9. /\ nx \in [Node -> Node \cup {NULL}] /\ nx[n] = mem.next[w] /\ nx[w] = n
        /\ \A x \in Node : x # n /\ x # w => nx[x] = mem.next[x]
    <3> HIDE DEF w
    <3> QED BY <1>1, <1>3, <2>7, <2>8
  <2> HIDE DEF nx
  <2>10. ASSUME NEW i \in 1..Len(q)
         PROVE  nx[q[i]] = IF i = k - 1 THEN n ELSE mem.next[q[i]]
    <3>1. CASE i = j
      BY <2>4, <2>9, <3>1
    <3>2. CASE i # j
      <4>1. q[i] # w /\ q[i] # n /\ q[i] \in Node
        BY <1>1, <1>2, <1>3, <2>7, <3>2 DEF IsChain
      <4>2. i # k - 1
        BY <2>4, <3>2
      <4> HIDE DEF w
      <4> QED BY <2>9, <4>1, <4>2
    <3> QED BY <3>1, <3>2
  <2>11. PutAt(q, n, k, nx)
    <3>1. k \in 1..Len(q) + 1 /\ nx[n] = Behind(q, k - 1)
      <4>1. k - 1 = j /\ k \in 1..Len(q) + 1
        BY <2>1, <2>4
      <4> QED BY <2>7, <2>9, <4>1
    <3>2. \A x \in Node : x # n /\ ~InList(x, q) => nx[x] = mem.next[x]
      BY <2>7, <2>9 DEF InList
    <3> HIDE DEF k, w
    <3> QED BY <2>6, <2>9, <2>10, <3>1, <3>2 DEF PutAt
  <2>12. k # 1 /\ k # Len(q) + 1
    BY <2>1, <2>4
  <2> HIDE DEF k
  <2> QED BY <2>2, <2>11, <2>12
<1> QED BY <1>8, <1>9, <1>10, <1>11

\* A push links its node into its place: the queue is as PriorityQueueSpec has it.
LEMMA PushLinkStep ==
    ASSUME NEW q, NEW f, Sound(q, f), NEW t \in Threads, PushLink(t)
    PROVE  /\ IInv'
           /\ pushes' = pushes + 1 /\ pushes < MaxPushes
           /\ \E p \in Priority, first \in BOOLEAN, k \in 1..Len(Entries(QueueChain)) + 1 :
                /\ IsSlot(Entries(QueueChain), p, first, k)
                /\ Entries(QueueChain)' =
                     InsertedAt(Entries(QueueChain), k,
                                [prio |-> p, first |-> first, id |-> pushes + 1])
<1>0. PICK n : n = node[t]
  OBVIOUS
<1> DEFINE U == InUse(q)
           p == entry[n].prio
           first == entry[n].first
           e == [prio |-> p, first |-> first, id |-> pushes + 1]
<1>1. /\ q \in Seq(Node) /\ Len(q) \in Nat
      /\ \A i \in 1..Len(q) : /\ q[i] \in Node /\ q[i] \in U
                              /\ q[i] \notin InHand /\ entry[q[i]] \in Content
      /\ InHand \subseteq U /\ U \in SUBSET Node /\ MemType(mem)
      /\ n \in InHand /\ n \in Node /\ n \in U /\ entry[n] \in Content
      /\ IsFiniteSet(Filled) /\ Cardinality(Filled) \in Nat
      /\ NULL \notin Node /\ NULL \notin Content
  BY <1>0, SoundParts DEF PushLink
<1>2. PICK k, nx : /\ PutAt(q, n, k, nx) /\ mem' = [mem EXCEPT !.next = nx]
                   /\ qFirst' = IF k = 1 THEN n ELSE qFirst
                   /\ qLast' = IF k = Len(q) + 1 THEN n ELSE qLast
  BY <1>0, LinkPlace
<1>3. /\ entry' = [entry EXCEPT ![n].id = pushes + 1]
      /\ pushes' = pushes + 1 /\ pc[t] = "filled"
      /\ pc' = [pc EXCEPT ![t] = "idle"] /\ node' = [node EXCEPT ![t] = NULL]
      /\ UNCHANGED <<dying, cursor>>
  BY <1>0 DEF PushLink
<1>4. /\ k \in 1..Len(q) + 1
      /\ \A i \in 1..Len(q) : StaysAhead(entry[q[i]], p, first) <=> i < k
      /\ nx \in [Node -> Node \cup {NULL}]
      /\ nx[n] = Behind(q, k - 1)
      /\ \A i \in 1..Len(q) : nx[q[i]] = IF i = k - 1 THEN n ELSE mem.next[q[i]]
      /\ \A x \in Node : x # n /\ ~InList(x, q) => nx[x] = mem.next[x]
  BY <1>2 DEF PutAt
<1>5. p \in Priority /\ first \in BOOLEAN /\ p \in Int
      /\ entry[n] = [prio |-> p, first |-> first, id |-> entry[n].id]
  BY <1>1, SpecAssumption DEF Content
<1> HIDE DEF p, first
<1>6. /\ node \in [Threads -> Node \cup {NULL}] /\ node[t] = n
      /\ pc \in [Threads -> {"idle", "filled", "detached"}]
      /\ \A v \in Threads : node[v] = NULL <=> pc[v] = "idle"
      /\ \A v, w \in Threads : v # w /\ node[v] # NULL => node[v] # node[w]
  BY <1>0 DEF Sound, HandsSound
<1> DEFINE d == InsertedAt(q, k, n)
<1>7. /\ IsChain(nx, IF k = 1 THEN n ELSE qFirst, d)
      /\ Len(d) = Len(q) + 1 /\ d # <<>>
      /\ \A x : InList(x, d) <=> x = n \/ InList(x, q)
      /\ d[Len(d)] = IF k = Len(q) + 1 THEN n ELSE q[Len(q)]
  <2>1. IsChain(mem.next, qFirst, q)
    BY DEF Sound, QueueSound
  <2>2. ~InList(n, q)
    BY <1>1 DEF InList
  <2>3. /\ n \in Node /\ k \in 1..Len(q) + 1 /\ nx[n] = Behind(q, k - 1)
        /\ \A i \in 1..Len(q) : nx[q[i]] = IF i = k - 1 THEN n ELSE mem.next[q[i]]
    BY <1>1, <1>4
  <2> HIDE DEF d, U, e
  <2>4. LET r == InsertedAt(q, k, n)
        IN  /\ IsChain(nx, IF k = 1 THEN n ELSE qFirst, r)
            /\ Len(r) = Len(q) + 1 /\ r # <<>>
            /\ \A x : InList(x, r) <=> x = n \/ InList(x, q)
            /\ r[Len(r)] = IF k = Len(q) + 1 THEN n ELSE q[Len(q)]
    BY <2>1, <2>2, <2>3, ChainInsert, SMTT(30)
  <2> QED BY <2>4 DEF d
<1>8. /\ d \in Seq(Node) /\ d[k] = n
      /\ \A i \in 1..Len(q) : d[IF i < k THEN i ELSE i + 1] = q[i]
      /\ \A i \in 1..Len(q) + 1 \ {k} :
           LET j == IF i < k THEN i ELSE i - 1 IN j \in 1..Len(q) /\ d[i] = q[j]
  <2>1. q \in Seq(Node) /\ n \in Node /\ k \in 1..Len(q) + 1
    BY <1>1, <1>4
  <2>2. InsertedAt(q, k, n) \in Seq(Node)
    BY <2>1, InsertedAtType
  <2> HIDE DEF d
  <2> QED BY <2>1, <2>2, InsertedAtEntries DEF d
<1> HIDE DEF d
<1>9. mem'.next = nx /\ MemSound(mem', U, f)
  <2>1. MemSound(mem, U, f)
    BY DEF Sound
  <2>2. \A x \in Node \ U : nx[x] = mem.next[x]
    BY <1>1, <1>4 DEF InList
  <2> HIDE DEF U
  <2>3. LET r == [mem EXCEPT !.next = nx] IN r.next = nx /\ MemSound(r, U, f)
    BY <1>4, <2>1, <2>2, LinksInUse
  <2> QED BY <1>2, <2>3
<1>10. InHand' = InHand \ {n}
  <2>1. ASSUME NEW x \in InHand, x # n PROVE x \in InHand'
    BY <1>1, <1>3, <1>6, <2>1 DEF InHand
  <2>2. n \notin InHand'
    BY <1>1, <1>3, <1>6 DEF InHand
  <2>3. ASSUME NEW x \in InHand' PROVE x \in InHand
    BY <1>1, <1>3, <1>6, <2>3 DEF InHand
  <2> QED BY <2>1, <2>2, <2>3
<1>11. InUse(d)' = U
  <2>1. \A x : x \in InUse(d)' <=> InList(x, d) \/ x \in InHand'
    BY DEF InUse, InList
  <2>2. \A x : x \in U <=> InList(x, q) \/ x \in InHand
    BY DEF InUse, InList
  <2> HIDE DEF U
  <2> QED BY <1>1, <1>7, <1>10, <2>1, <2>2
<1>12. HandsSound(d)'
  <2>1. node' \in [Threads -> Node \cup {NULL}] /\ pc' \in [Threads -> {"idle", "filled", "detached"}]
    BY <1>3, <1>6
  <2>2. \A v \in Threads : node'[v] = NULL <=> pc'[v] = "idle"
    BY <1>3, <1>6
  <2>3. \A v, w \in Threads : v # w /\ node'[v] # NULL => node'[v] # node'[w]
    BY <1>3, <1>6
  <2>4. ASSUME NEW i \in 1..Len(d) PROVE d[i] \notin InHand'
    <3>1. d[i] = n \/ InList(d[i], q)
      BY <1>7 DEF InList
    <3> QED BY <1>1, <1>10, <3>1 DEF InList
  <2> QED BY <2>1, <2>2, <2>3, <2>4 DEF HandsSound
<1>13. /\ entry' \in [Node -> Content \cup {NULL}]
       /\ entry'[n] = e /\ e \in Content
       /\ \A x \in Node \ {n} : entry'[x] = entry[x]
       /\ pushes \in Nat /\ pushes + 1 <= MaxPushes
       /\ pushes' + Cardinality(Filled)' <= MaxPushes
  <2>1. entry \in [Node -> Content \cup {NULL}] /\ pushes \in Nat
        /\ pushes + Cardinality(Filled) <= MaxPushes
    BY DEF Sound, ValuesSound
  <2>2. Filled' = Filled \ {t} /\ t \in Filled
    BY <1>3, <1>6 DEF Filled
  <2>3. Cardinality(Filled') = Cardinality(Filled) - 1
    BY <1>1, <2>2, RemoveOne
  <2>4. Filled # {} /\ Cardinality(Filled') \in Nat
    <3>1. IsFiniteSet(Filled')
      BY <1>1, <2>2, FS_Subset
    <3> QED BY <2>2, <3>1, FS_CardinalityType
  <2>5. pushes + 1 <= MaxPushes /\ pushes' + Cardinality(Filled)' <= MaxPushes
    BY <1>1, <1>3, <2>1, <2>3, <2>4, SpecAssumption
  <2>6. e \in Content
    BY <1>5, <2>1, <2>5, SpecAssumption DEF Content
  <2>7. entry' = [entry EXCEPT ![n] = e]
    <3>1. entry' = [entry EXCEPT ![n] = [entry[n] EXCEPT !.id = pushes + 1]]
      BY <1>3
    <3>2. [entry[n] EXCEPT !.id = pushes + 1] = e
      BY <1>5
    <3> QED BY <3>1, <3>2
  <2> HIDE DEF e
  <2> QED BY <1>1, <2>1, <2>5, <2>6, <2>7
<1>14. \A i \in 1..Len(q) : entry'[q[i]] = entry[q[i]] /\ q[i] # n
  BY <1>1, <1>13
<1> DEFINE s == [i \in DOMAIN q |-> entry[q[i]]]
           s2 == [i \in DOMAIN d |-> entry'[d[i]]]
<1>15. /\ QueueChain = q /\ s \in Seq(Content) /\ Len(s) = Len(q)
       /\ \A i \in 1..Len(q) : s[i] = entry[q[i]]
  <2>1. \A i \in 1..Len(q) : entry[q[i]] \in Content
    BY <1>1
  <2>2. IsChain(mem.next, qFirst, q)
    BY DEF Sound, QueueSound
  <2> QED BY <2>1, <2>2, EntriesListed DEF QueueChain
<1>16. IsChain(mem'.next, qFirst', d)
  BY <1>2, <1>7, <1>9
<1>17. /\ QueueChain' = d /\ s2 \in Seq(Content) /\ Len(s2) = Len(d)
       /\ \A i \in 1..Len(d) : s2[i] = entry'[d[i]]
  <2>1. ASSUME NEW i \in 1..Len(d) PROVE entry'[d[i]] \in Content
    <3>1. d[i] = n \/ InList(d[i], q)
      BY <1>7 DEF InList
    <3> HIDE DEF e
    <3> QED BY <1>1, <1>13, <1>14, <3>1 DEF InList
  <2> QED BY <1>16, <2>1, EntriesListed DEF QueueChain
<1> HIDE DEF s, s2
<1>18. s2 = InsertedAt(s, k, e)
  <2> DEFINE r == InsertedAt(s, k, e)
  <2>1. /\ k \in 1..Len(s) + 1
        /\ r \in Seq(Content) /\ Len(r) = Len(s) + 1 /\ r[k] = e
        /\ \A i \in 1..Len(s) + 1 \ {k} :
             LET j == IF i < k THEN i ELSE i - 1 IN j \in 1..Len(s) /\ r[i] = s[j]
    <3> HIDE DEF e
    <3>1. k \in 1..Len(s) + 1 /\ e \in Content /\ s \in Seq(Content)
      BY <1>4, <1>13, <1>15
    <3> QED BY <3>1, InsertedAtType, InsertedAtEntries
  <2> HIDE DEF r, e
  <2>2. ASSUME NEW i \in 1..Len(s2) PROVE s2[i] = r[i]
    <3>1. i \in 1..Len(q) + 1 /\ i \in 1..Len(d) /\ i \in 1..Len(s) + 1
      BY <1>7, <1>15, <1>17
    <3>2. CASE i = k
      BY <1>8, <1>13, <1>17, <2>1, <3>1, <3>2
    <3>3. CASE i # k
      <4> DEFINE j == IF i < k THEN i ELSE i - 1
      <4>1. j \in 1..Len(q) /\ d[i] = q[j]
        BY <1>8, <3>1, <3>3
      <4>2. r[i] = s[j]
        BY <2>1, <3>1, <3>3
      <4> HIDE DEF j
      <4> QED BY <1>14, <1>15, <1>17, <3>1, <4>1, <4>2
    <3> QED BY <3>2, <3>3
  <2>3. Len(s2) = Len(r)
    BY <1>7, <1>15, <1>17, <2>1
  <2> QED BY <1>17, <2>1, <2>2, <2>3, SeqEqual DEF r
<1>19. IsSlot(s, p, first, k)
  BY <1>4, <1>15 DEF IsSlot
<1>20. QueueSound(d)'
  <2>1. ASSUME NEW i \in 1..Len(d), NEW j \in 1..Len(d), i <= j
        PROVE  entry'[d[i]].prio <= entry'[d[j]].prio
    <3>1. i \in 1..Len(q) + 1 /\ j \in 1..Len(q) + 1
      BY <1>7
    <3>2. \A x \in 1..Len(q) : entry[q[x]].prio \in Int
      BY <1>1, SpecAssumption DEF Content
    <3>3. \A x, y \in 1..Len(q) : x <= y => entry[q[x]].prio <= entry[q[y]].prio
      BY DEF Sound, QueueSound
    <3>4. entry'[d[k]].prio = p
      BY <1>8, <1>13
    <3>5. \A x \in 1..Len(q) : x < k => entry[q[x]].prio <= p
      BY <1>4, <1>5, <3>2 DEF StaysAhead
    <3>6. \A x \in 1..Len(q) : ~(x < k) => p <= entry[q[x]].prio
      BY <1>4, <1>5, <3>2 DEF StaysAhead
    <3> DEFINE At(x) == IF x < k THEN x ELSE x - 1
    <3>7. \A x \in 1..Len(q) + 1 \ {k} :
             At(x) \in 1..Len(q) /\ entry'[d[x]] = entry[q[At(x)]]
      BY <1>8, <1>14
    <3>8. CASE i = k /\ j = k
      BY <1>5, <3>4, <3>8
    <3>9. CASE i = k /\ j # k
      <4>1. At(j) \in 1..Len(q) /\ ~(At(j) < k)
        BY <1>1, <1>4, <2>1, <3>1, <3>7, <3>9
      <4> QED BY <3>1, <3>4, <3>6, <3>7, <3>9, <4>1
    <3>10. CASE i # k /\ j = k
      <4>1. At(i) \in 1..Len(q) /\ At(i) < k
        BY <1>1, <1>4, <2>1, <3>1, <3>7, <3>10
      <4> QED BY <3>1, <3>4, <3>5, <3>7, <3>10, <4>1
    <3>11. CASE i # k /\ j # k
      <4>1. At(i) \in 1..Len(q) /\ At(j) \in 1..Len(q) /\ At(i) <= At(j)
        BY <1>1, <1>4, <2>1, <3>1, <3>7, <3>11
      <4>2. entry[q[At(i)]].prio <= entry[q[At(j)]].prio
        <5> HIDE DEF At
        <5> QED BY <3>3, <4>1
      <4>3. entry'[d[i]] = entry[q[At(i)]] /\ entry'[d[j]] = entry[q[At(j)]]
        <5> HIDE DEF At
        <5> QED BY <3>1, <3>7, <3>11
      <4> QED BY <4>2, <4>3
    <3> QED BY <3>8, <3>9, <3>10, <3>11
  <2>2. qLast' = d[Len(d)]
    <3>1. CASE k = Len(q) + 1
      BY <1>2, <1>7, <3>1
    <3>2. CASE k # Len(q) + 1
      <4>1. Len(q) # 0
        BY <1>4, <3>2
      <4>2. q # <<>>
        BY <4>1, EmptySeq
      <4> QED BY <1>2, <1>7, <3>2, <4>2 DEF Sound, QueueSound
    <3> QED BY <3>1, <3>2
  <2> QED BY <1>7, <1>16, <2>1, <2>2 DEF QueueSound
<1>21. ValuesSound(d)'
  <2>1. \A x \in Node : entry[x] # NULL <=> x \in U
    BY DEF Sound, ValuesSound
  <2>2. dying' = FALSE /\ cursor' = NULL
    BY <1>3 DEF Sound, ValuesSound
  <2> HIDE DEF U, e
  <2>3. \A x \in Node : entry'[x] # NULL <=> x \in InUse(d)'
    BY <1>1, <1>11, <1>13, <2>1
  <2> QED BY <1>3, <1>13, <2>2, <2>3 DEF ValuesSound
<1>22. IInv'
  BY <1>9, <1>11, <1>12, <1>20, <1>21 DEF IInv, Sound
<1>23. Entries(QueueChain) = s /\ Entries(QueueChain)' = s2
  BY <1>15, <1>17 DEF Entries, s, s2
<1>24. pushes < MaxPushes
  BY <1>13, SpecAssumption
<1> HIDE DEF d
<1> QED BY <1>3, <1>4, <1>5, <1>15, <1>18, <1>19, <1>22, <1>23, <1>24

\* The queue begins empty, with the preallocated nodes free.
LEMMA InitSound == Init => IInv
<1> SUFFICES ASSUME Init PROVE IInv
  OBVIOUS
<1> DEFINE f == [i \in 1..Preallocated |-> <<NULL, i>>]
<1>1. /\ mem.first = <<NULL, 1>> /\ mem.last = <<NULL, Preallocated>>
      /\ mem.next = Linked([n \in Node |-> NULL], NULL, Preallocated)
      /\ mem.used = [b \in Blocks |-> 0] /\ mem.live = {}
      /\ qFirst = NULL /\ qLast = NULL /\ entry = [n \in Node |-> NULL]
      /\ pc = [t \in Threads |-> "idle"] /\ node = [t \in Threads |-> NULL]
      /\ pushes = 0 /\ dying = FALSE /\ cursor = NULL
  BY DEF Init
<1>2. Preallocated \in Nat \ {0} /\ StorageNodes \in Nat /\ NULL \notin Node /\ NULL \notin Content
  BY PQAssumption
<1>3. \A i \in 1..Preallocated : <<NULL, i>> \in Node /\ BlockOf(<<NULL, i>>) = NULL
  BY DEF Node, Preallocs, BlockOf
<1>4. f \in [1..Preallocated -> Node] /\ \A i \in 1..Preallocated : f[i] = <<NULL, i>>
  BY <1>3
<1>5. f \in Seq(Node) /\ Len(f) = Preallocated
  <2> HIDE DEF f
  <2> QED BY <1>2, <1>4, FunctionIsList
<1> HIDE DEF f
<1>6. \A n \in Node : mem.next[n] = IF BlockOf(n) # NULL THEN NULL
                                    ELSE IF n[2] = Preallocated THEN NULL
                                    ELSE <<NULL, n[2] + 1>>
  BY <1>1 DEF Linked
<1>7. mem.next \in [Node -> Node \cup {NULL}]
  <2>1. ASSUME NEW n \in Node, BlockOf(n) = NULL, n[2] # Preallocated
        PROVE  <<NULL, n[2] + 1>> \in Node
    <3>1. PICK i \in 1..Preallocated : n = <<NULL, i>>
      BY <2>1, NodesInBlocks DEF Preallocs
    <3>2. i + 1 \in 1..Preallocated /\ n[2] = i
      BY <1>2, <2>1, <3>1
    <3> QED BY <1>3, <3>2
  <2> QED BY <1>1, <1>6, <2>1 DEF Linked
<1>8. MemType(mem)
  <2>1. mem = [first |-> mem.first, last |-> mem.last, next |-> mem.next,
               used |-> mem.used, live |-> mem.live]
    BY DEF Init
  <2>2. mem.first \in Node /\ mem.last \in Node
    BY <1>1, <1>2, <1>3
  <2>3. mem.used \in [Blocks -> 0..StorageNodes] /\ mem.live \in SUBSET Blocks
    BY <1>1, <1>2
  <2> QED BY <1>7, <2>1, <2>2, <2>3 DEF MemType
<1>9. IsChain(mem.next, mem.first, f)
  <2>1. \A i, j \in 1..Len(f) : f[i] = f[j] => i = j
    BY <1>4, <1>5
  <2>2. mem.first = Behind(f, 0)
    BY <1>1, <1>2, <1>4, <1>5 DEF Behind
  <2>3. ASSUME NEW i \in 1..Len(f) PROVE mem.next[f[i]] = Behind(f, i)
    <3>1. i \in 1..Preallocated /\ f[i] = <<NULL, i>> /\ f[i] \in Node
      BY <1>3, <1>4, <1>5
    <3>2. mem.next[f[i]] = IF i = Preallocated THEN NULL ELSE <<NULL, i + 1>>
      BY <1>3, <1>6, <3>1
    <3>3. i # Preallocated => f[i + 1] = <<NULL, i + 1>>
      BY <1>2, <1>4, <3>1
    <3> QED BY <1>5, <3>2, <3>3 DEF Behind
  <2> QED BY <1>5, <2>1, <2>2, <2>3 DEF IsChain
<1>10. InHand = {} /\ Len(<<>>) = 0 /\ <<>> \in Seq(Node)
  BY <1>1, <1>2, EmptySeq DEF InHand
<1>11. InUse(<<>>) = {}
  BY <1>10 DEF InUse
<1>12. MemSound(mem, {}, f)
  <2>1. f # <<>> /\ mem.last = f[Len(f)]
    BY <1>1, <1>2, <1>4, <1>5, <1>10
  <2>2. mem.last # NULL
    BY <1>1, <1>2, <1>3
  <2>3. \A i \in 1..Len(f) : Alive(mem, f[i])
    BY <1>3, <1>4, <1>5 DEF Alive
  <2>4. \A n \in Preallocs : InList(n, f)
    BY <1>4, <1>5 DEF Preallocs, InList
  <2> QED BY <1>1, <1>8, <1>9, <2>1, <2>2, <2>3, <2>4 DEF MemSound, Divided
<1>13. HandsSound(<<>>)
  BY <1>1, <1>10 DEF HandsSound
<1>14. QueueSound(<<>>)
  BY <1>1, <1>10 DEF QueueSound, IsChain, Behind
<1>15. ValuesSound(<<>>)
  <2>1. Cardinality(Filled) = 0
    <3>1. Filled = {}
      BY <1>1 DEF Filled
    <3> QED BY <3>1, FS_EmptySet
  <2> QED BY <1>1, <1>11, <2>1, SpecAssumption DEF ValuesSound
<1> QED BY <1>11, <1>12, <1>13, <1>14, <1>15 DEF IInv, Sound

\* A step that changes nothing.
LEMMA StutterStep ==
    ASSUME IInv, UNCHANGED vars
    PROVE  IInv' /\ Entries(QueueChain)' = Entries(QueueChain) /\ pushes' = pushes
<1>1. UNCHANGED <<mem, qFirst, qLast, entry, pc, node, pushes, dying, cursor>>
  BY DEF vars
<1>2. PICK q, f : Sound(q, f)
  BY DEF IInv
<1>3. InHand' = InHand /\ Filled' = Filled
  BY <1>1 DEF InHand, Filled
<1>4. InUse(q)' = InUse(q)
  BY <1>3 DEF InUse
<1>5. HandsSound(q)' /\ QueueSound(q)' /\ MemSound(mem', InUse(q)', f)
  BY <1>1, <1>2, <1>3, <1>4 DEF Sound, HandsSound, QueueSound
<1>6. ValuesSound(q)'
  BY <1>1, <1>2, <1>3, <1>4 DEF Sound, ValuesSound
<1>7. IInv'
  BY <1>5, <1>6 DEF IInv, Sound
<1>8. QueueChain' = QueueChain
  BY <1>1 DEF QueueChain
<1> QED BY <1>1, <1>7, <1>8 DEF Entries

\* Every step keeps the invariant, and is a step of PriorityQueueSpec or none.
LEMMA NextSound ==
    ASSUME IInv, [Next]_vars
    PROVE  IInv' /\ [Promise!Next]_(Promise!vars)
<1>1. PICK q, f : Sound(q, f)
  BY DEF IInv
<1>2. ASSUME NEW t \in Threads, NEW p \in Priority, NEW first \in BOOLEAN,
             PushAllocate(t, p, first)
      PROVE  IInv' /\ [Promise!Next]_(Promise!vars)
  <2>1. pushes' = pushes
    BY <1>2 DEF PushAllocate
  <2> QED BY <1>1, <1>2, <2>1, PushAllocateStep DEF Promise!vars
<1>3. ASSUME NEW t \in Threads, PushLink(t)
      PROVE  IInv' /\ [Promise!Next]_(Promise!vars)
  <2>1. /\ IInv' /\ pushes' = pushes + 1 /\ pushes < MaxPushes
        /\ \E p \in Priority, first \in BOOLEAN, k \in 1..Len(Entries(QueueChain)) + 1 :
                /\ IsSlot(Entries(QueueChain), p, first, k)
                /\ Entries(QueueChain)' =
                     InsertedAt(Entries(QueueChain), k,
                                [prio |-> p, first |-> first, id |-> pushes + 1])
    BY <1>1, <1>3, PushLinkStep
  <2>2. \E p \in Priority, first \in BOOLEAN : Promise!Push(p, first)
    <3>1. /\ \A s, p, first, k : Promise!IsSlot(s, p, first, k) <=> IsSlot(s, p, first, k)
          /\ \A s, k, e : Promise!InsertedAt(s, k, e) = InsertedAt(s, k, e)
      BY DEF Promise!IsSlot, IsSlot, Promise!StaysAhead, StaysAhead,
             Promise!InsertedAt, InsertedAt
    <3>2. PICK p \in Priority, first \in BOOLEAN, k \in 1..Len(Entries(QueueChain)) + 1 :
                /\ Promise!IsSlot(Entries(QueueChain), p, first, k)
                /\ Entries(QueueChain)' =
                     Promise!InsertedAt(Entries(QueueChain), k,
                                [prio |-> p, first |-> first, id |-> pushes + 1])
      BY <2>1, <3>1
    <3>3. Promise!Push(p, first)
      BY <2>1, <3>2 DEF Promise!Push
    <3> QED BY <3>3
  <2> QED BY <2>1, <2>2 DEF Promise!Next
<1>4. ASSUME NEW t \in Threads, PopDetach(t)
      PROVE  IInv' /\ [Promise!Next]_(Promise!vars)
  <2>1. IInv' /\ Promise!Pop
    BY <1>1, <1>4, PopDetachStep DEF Promise!Pop
  <2> QED BY <2>1 DEF Promise!Next
<1>5. ASSUME NEW t \in Threads, PopFree(t)
      PROVE  IInv' /\ [Promise!Next]_(Promise!vars)
  <2>1. pushes' = pushes
    BY <1>5 DEF PopFree
  <2> QED BY <1>1, <1>5, <2>1, PopFreeStep DEF Promise!vars
<1>6. ASSUME Clear
      PROVE  IInv' /\ [Promise!Next]_(Promise!vars)
  <2>1. IInv' /\ Promise!Clear
    BY <1>1, <1>6, ClearStep DEF Promise!Clear
  <2> QED BY <2>1 DEF Promise!Next
<1>7. ASSUME UNCHANGED vars
      PROVE  IInv' /\ [Promise!Next]_(Promise!vars)
  BY <1>7, StutterStep DEF Promise!vars
<1> QED BY <1>2, <1>3, <1>4, <1>5, <1>6, <1>7 DEF Next

-------------------------------------------------------------------------------
\* What the invariant says.

\* The lists it speaks of are the ones the links run through.
LEMMA SoundMemory ==
    ASSUME IInv
    PROVE  MemorySound /\ TypeOK
<1>1. PICK q, f : Sound(q, f)
  BY DEF IInv
<1>2. /\ q \in Seq(Node) /\ f \in Seq(Node) /\ Len(q) \in Nat /\ Len(f) \in Nat
      /\ DOMAIN q = 1..Len(q) /\ DOMAIN f = 1..Len(f)
      /\ \A i \in 1..Len(q) : q[i] \in Node
      /\ \A i \in 1..Len(f) : f[i] \in Node
      /\ NULL \notin Node
  BY <1>1, LenProperties, ElementOfSeq, PQAssumption
     DEF Sound, QueueSound, MemSound, Divided, IsChain
<1>3. QueueChain = q /\ FreeChain = f
  BY <1>1, ChainIs DEF Sound, QueueSound, MemSound, Divided, QueueChain, FreeChain
<1>4. ToSet(q) = {q[i] : i \in 1..Len(q)} /\ ToSet(f) = {f[i] : i \in 1..Len(f)}
  BY <1>2 DEF ToSet
<1>5. /\ \A x : x \in ToSet(q) <=> InList(x, q)
      /\ \A x : x \in ToSet(f) <=> InList(x, f)
      /\ ToSet(q) \cup InHand = InUse(q)
  BY <1>4 DEF InList, InUse
<1>6. NodesNotShared
  <2>1. IsInjective(f) /\ IsInjective(q)
    BY <1>1, <1>2 DEF IsInjective, Sound, QueueSound, MemSound, Divided, IsChain
  <2>2. \A i \in 1..Len(f) : f[i] \notin InUse(q)
    BY <1>1 DEF Sound, MemSound, Divided
  <2>3. ToSet(f) \cap ToSet(q) = {} /\ InHand \cap ToSet(f) = {}
    BY <1>5, <2>2 DEF InList
  <2>4. InHand \cap ToSet(q) = {}
    BY <1>1, <1>5 DEF InList, Sound, HandsSound
  <2>5. \A t, u \in Threads : t # u /\ node[t] # NULL => node[t] # node[u]
    BY <1>1 DEF Sound, HandsSound
  <2> QED BY <1>3, <2>1, <2>3, <2>4, <2>5 DEF NodesNotShared
<1>7. BlocksOutliveNodes
  <2>1. /\ \A i \in 1..Len(f) : Alive(mem, f[i])
        /\ \A n \in InUse(q) : Alive(mem, n)
        /\ \A b \in mem.live : mem.used[b] = Cardinality(InUse(q) \cap NodesOf(b))
                               /\ mem.used[b] > 0
    BY <1>1 DEF Sound, MemSound, Divided
  <2>2. \A n \in InUse(q) \cup ToSet(f) : Alive(mem, n)
    BY <1>5, <2>1 DEF InList
  <2>3. /\ ToSet(QueueChain) \cup InHand = InUse(q)
        /\ \A n \in (ToSet(QueueChain) \cup InHand) \cup ToSet(FreeChain) : Alive(mem, n)
    BY <1>3, <1>5, <2>2
  <2>4. \A b \in mem.live :
          mem.used[b] = Cardinality((ToSet(QueueChain) \cup InHand) \cap NodesOf(b))
    BY <2>1, <2>3
  <2> QED BY <2>1, <2>3, <2>4 DEF BlocksOutliveNodes
<1>8. DrainedIsInitial
  <2> SUFFICES ASSUME q = <<>>, InHand = {} PROVE mem.live = {} /\ ToSet(f) = Preallocs
    BY <1>3 DEF DrainedIsInitial
  <2>1. Len(q) = 0
    BY EmptySeq
  <2>2. InUse(q) = {}
    BY <2>1 DEF InUse
  <2>3. ASSUME NEW b \in mem.live PROVE FALSE
    <3>1. mem.used[b] = Cardinality({}) /\ mem.used[b] > 0
      BY <1>1, <2>2 DEF Sound, MemSound, Divided
    <3> QED BY <3>1, FS_EmptySet
  <2>4. \A n \in Preallocs : n \in ToSet(f)
    BY <1>1, <1>5, <2>2 DEF Sound, MemSound, Divided
  <2>5. ASSUME NEW i \in 1..Len(f) PROVE f[i] \in Preallocs
    <3>1. Alive(mem, f[i])
      BY <1>1 DEF Sound, MemSound, Divided
    <3> QED BY <1>2, <2>3, <3>1, NodesInBlocks DEF Alive
  <2> QED BY <1>4, <2>3, <2>4, <2>5
<1>9. ValuesInUsedNodes
  <2>1. \A n \in Node : entry[n] # NULL <=> n \in InUse(q)
    BY <1>1 DEF Sound, ValuesSound
  <2>2. InUse(q) \subseteq Node
    BY <1>2 DEF InUse, InHand
  <2> QED BY <1>3, <1>5, <2>1, <2>2 DEF ValuesInUsedNodes
<1>10. TypeOK
  <2>1. MemType(mem)
    BY <1>1 DEF Sound, MemSound, Divided
  <2>2. qFirst \in Node \cup {NULL} /\ qLast \in Node \cup {NULL}
    <3>1. CASE Len(q) = 0
      <4>1. q = <<>>
        BY <1>2, <3>1, EmptySeq
      <4> QED BY <1>1, <3>1, <4>1 DEF Sound, QueueSound, IsChain, Behind
    <3>2. CASE Len(q) # 0
      <4>1. q # <<>> /\ 1 \in 1..Len(q) /\ Len(q) \in 1..Len(q)
        BY <1>2, <3>2, EmptySeq
      <4>2. qFirst = q[1] /\ qLast = q[Len(q)]
        <5>1. qFirst = Behind(q, 0) /\ qLast = q[Len(q)]
          BY <1>1, <4>1 DEF Sound, QueueSound, IsChain
        <5> QED BY <3>2, <5>1 DEF Behind
      <4> QED BY <1>2, <4>1, <4>2
    <3> QED BY <3>1, <3>2
  <2>3. pushes \in 0..MaxPushes
    <3>1. IsFiniteSet(Filled) /\ Cardinality(Filled) \in Nat
      BY <1>1, SoundParts
    <3> QED BY <1>1, <3>1, SpecAssumption DEF Sound, ValuesSound
  <2> QED BY <1>1, <2>1, <2>2, <2>3 DEF TypeOK, MemType, Sound, HandsSound
<1> QED BY <1>6, <1>7, <1>8, <1>9, <1>10 DEF MemorySound

-------------------------------------------------------------------------------
\* PriorityQueue keeps its invariant.
LEMMA Invariant == Spec => []IInv
<1>1. Init => IInv
  BY InitSound
<1>2. IInv /\ [Next]_vars => IInv'
  BY NextSound
<1> QED BY <1>1, <1>2, PTL DEF Spec

\* Every field of the two lists holds what its declaration allows.
THEOREM TypeCorrect == Spec => []TypeOK
<1>1. IInv => TypeOK
  BY SoundMemory
<1> QED BY <1>1, Invariant, PTL

\* Whatever the interleaving of allocateNode, pushNode, popNode and freeNode: no node
\* is in two places, no block goes away before its nodes, a drained queue is back at
\* its preallocated nodes, and values live in the nodes in use.
THEOREM MemorySoundHolds == Spec => []MemorySound
<1>1. IInv => MemorySound
  BY SoundMemory
<1> QED BY <1>1, Invariant, PTL

\* The linked nodes under their two locks implement the queue that PriorityQueueSpec
\* promises.
THEOREM PromiseHolds == Spec => ImplementsPromise
<1>1. Init => Promise!Init
  <2> SUFFICES ASSUME Init PROVE Promise!Init
    OBVIOUS
  <2>1. qFirst = NULL /\ pushes = 0
    BY DEF Init
  <2>2. IsChain(mem.next, qFirst, <<>>)
    BY <2>1, EmptySeq DEF IsChain, Behind
  <2>3. QueueChain = <<>>
    BY <2>2, ChainIs DEF QueueChain
  <2>4. DOMAIN QueueChain = {}
    BY <2>3, EmptySeq
  <2> QED BY <2>1, <2>4 DEF Promise!Init, Entries
<1>2. IInv /\ [Next]_vars => [Promise!Next]_(Promise!vars)
  BY NextSound
<1> QED BY <1>1, <1>2, Invariant, PTL DEF Spec, ImplementsPromise, Promise!Spec

Order == INSTANCE PriorityQueueSpec_proof WITH queue <- Entries(QueueChain)

\* Entries leave by priority, and equals as insertFirst asks, in any interleaving of
\* pushes and pops: PriorityQueueSpec's theorem, carried over.
THEOREM RemovalOrderHolds == Spec => []RemovalOrder
<1>1. Order!Spec => []Order!RemovalOrder
  BY Order!RemovalOrderHolds, SpecAssumption
<1>2. Promise!Init => Order!Init
  BY DEF Promise!Init, Order!Init
<1>3. [Promise!Next]_(Promise!vars) => [Order!Next]_(Order!vars)
  BY DEF Promise!Next, Order!Next, Promise!Push, Order!Push, Promise!Pop, Order!Pop,
         Promise!Clear, Order!Clear, Promise!vars, Order!vars, Promise!IsSlot,
         Order!IsSlot, Promise!InsertedAt, Order!InsertedAt, Promise!StaysAhead,
         Order!StaysAhead
<1>4. Order!RemovalOrder => Promise!RemovalOrder
  BY DEF Order!RemovalOrder, Promise!RemovalOrder, Order!Before, Promise!Before
<1> QED BY <1>1, <1>2, <1>3, <1>4, PromiseHolds, PTL
        DEF ImplementsPromise, RemovalOrder, Promise!Spec, Order!Spec

===============================================================================
