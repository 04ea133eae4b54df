-------------------------- MODULE PriorityList_proof --------------------------
(***************************************************************************)
(* Lemmas the proofs about the task queues share: the lists tasks are put  *)
(* into and taken from, and sets of threads that gain or lose one.         *)
(***************************************************************************)
EXTENDS PriorityList, SequenceTheorems, FiniteSetTheorems, TLAPS

\* A list stays a list of entries when an entry is put at one of its places, and
\* gets longer by one.
LEMMA InsertedAtType ==
    ASSUME NEW S, NEW s \in Seq(S), NEW e \in S, NEW k \in 1..Len(s) + 1
    PROVE  /\ InsertedAt(s, k, e) \in Seq(S)
           /\ Len(InsertedAt(s, k, e)) = Len(s) + 1
<1>1. Len(s) \in Nat /\ \A i \in 1..Len(s) : s[i] \in S
  BY LenProperties, ElementOfSeq
<1>2. \A i \in 1..Len(s) + 1 :
        (IF i < k THEN s[i] ELSE IF i = k THEN e ELSE s[i - 1]) \in S
  BY <1>1
<1>3. InsertedAt(s, k, e) \in [1..Len(s) + 1 -> S]
  BY <1>2 DEF InsertedAt
<1>4. InsertedAt(s, k, e) \in Seq(S)
  BY <1>1, <1>3, SeqDef
<1> QED BY <1>1, <1>3, <1>4, LenProperties

\* The entries of a list are those it had and the one put into it.
LEMMA InsertedAtEntries ==
    ASSUME NEW S, NEW s \in Seq(S), NEW e \in S, NEW k \in 1..Len(s) + 1
    PROVE  LET r == InsertedAt(s, k, e)
           IN  /\ r[k] = e
               /\ \A i \in 1..Len(s) : r[IF i < k THEN i ELSE i + 1] = s[i]
               /\ \A i \in 1..Len(s) + 1 \ {k} :
                    LET j == IF i < k THEN i ELSE i - 1
                    IN  j \in 1..Len(s) /\ r[i] = s[j]
BY LenProperties DEF InsertedAt

\* The head of a list is its first entry, and the others move up.
LEMMA HeadIsFirst ==
    ASSUME NEW S, NEW s \in Seq(S), s # <<>>
    PROVE  Head(s) = s[1] /\ Len(s) \in Nat \ {0}
BY EmptySeq

\* What leads a list of n elements of S and others.
LEMMA LeadingPrefix ==
    ASSUME NEW S, NEW U, NEW s \in Seq(U), NEW n \in 0..Len(s),
           \A i \in 1..Len(s) : s[i] \in S <=> i <= n
    PROVE  /\ Leading(s, S) \in Seq(S)
           /\ Len(Leading(s, S)) = n
           /\ \A i \in 1..n : Leading(s, S)[i] = s[i]
<1>1. Len(s) \in Nat /\ DOMAIN s = 1..Len(s)
  BY LenProperties
<1>2. {j \in DOMAIN s : s[j] \in S} = 1..n
  BY <1>1
<1>3. Leading(s, S) \in [1..n -> S] /\ \A i \in 1..n : Leading(s, S)[i] = s[i]
  BY <1>1, <1>2 DEF Leading
<1>4. Leading(s, S) \in Seq(S)
  BY <1>1, <1>3, SeqDef
<1> QED BY <1>1, <1>3, <1>4, LenProperties

\* A list of which nothing is in S has nothing that leads.
LEMMA LeadingNothing ==
    ASSUME NEW S, NEW U, NEW s \in Seq(U), \A i \in 1..Len(s) : s[i] \notin S
    PROVE  Leading(s, S) = <<>>
<1>1. Len(s) \in Nat
  BY LenProperties
<1>2. /\ Leading(s, S) \in Seq(S)
      /\ Len(Leading(s, S)) = 0
  BY <1>1, LeadingPrefix
<1> QED BY <1>2, EmptySeq

\* Two lists of different things, one behind the other.
LEMMA LeadingConcat ==
    ASSUME NEW S, NEW T, S \cap T = {}, NEW s \in Seq(S), NEW t \in Seq(T)
    PROVE  /\ Leading(s \o t, S) = s
           /\ Len(s) \in 0..Len(s \o t)
           /\ \A i \in 1..Len(s \o t) : (s \o t)[i] \in S <=> i <= Len(s)
<1>1. /\ s \in Seq(S \cup T) /\ t \in Seq(S \cup T)
      /\ Len(s) \in Nat /\ Len(t) \in Nat
  BY SeqMonotonic, LenProperties
<1>2. /\ s \o t \in Seq(S \cup T)
      /\ Len(s \o t) = Len(s) + Len(t)
      /\ \A i \in 1..Len(s) + Len(t) : (s \o t)[i] =
            IF i <= Len(s) THEN s[i] ELSE t[i - Len(s)]
  BY <1>1, ConcatProperties
<1>3. /\ \A i \in 1..Len(s) : s[i] \in S
      /\ \A i \in 1..Len(t) : t[i] \in T
  BY ElementOfSeq
<1>4. \A i \in 1..Len(s \o t) : (s \o t)[i] \in S <=> i <= Len(s)
  BY <1>1, <1>2, <1>3
<1>5. Len(s) \in 0..Len(s \o t)
  BY <1>1, <1>2
<1>6. /\ Leading(s \o t, S) \in Seq(S)
      /\ Len(Leading(s \o t, S)) = Len(s)
      /\ \A i \in 1..Len(s) : Leading(s \o t, S)[i] = (s \o t)[i]
  <2> DEFINE r == s \o t
  <2>1. r \in Seq(S \cup T) /\ Len(s) \in 0..Len(r)
        /\ \A i \in 1..Len(r) : r[i] \in S <=> i <= Len(s)
    BY <1>2, <1>4, <1>5
  <2> HIDE DEF r
  <2>2. /\ Leading(r, S) \in Seq(S)
        /\ Len(Leading(r, S)) = Len(s)
        /\ \A i \in 1..Len(s) : Leading(r, S)[i] = r[i]
    BY <2>1, LeadingPrefix
  <2> QED BY <2>2 DEF r
<1>7. Leading(s \o t, S) = s
  BY <1>1, <1>2, <1>6, SeqEqual
<1> QED BY <1>4, <1>5, <1>7

\* The tail of a list with a leading element has one of them less.
LEMMA LeadingTail ==
    ASSUME NEW S, NEW U, NEW s \in Seq(U), s # <<>>, Head(s) \in S, NEW n \in 0..Len(s),
           \A i \in 1..Len(s) : s[i] \in S <=> i <= n
    PROVE  /\ Leading(s, S) # <<>>
           /\ Head(Leading(s, S)) = Head(s)
           /\ Leading(Tail(s), S) = Tail(Leading(s, S))
           /\ n - 1 \in 0..Len(Tail(s))
           /\ \A i \in 1..Len(Tail(s)) : Tail(s)[i] \in S <=> i <= n - 1
<1>1. /\ Len(s) \in Nat \ {0} /\ Head(s) = s[1]
      /\ Tail(s) \in Seq(U)
      /\ Len(Tail(s)) = Len(s) - 1
      /\ \A i \in 1..Len(Tail(s)) : Tail(s)[i] = s[i + 1]
  BY HeadIsFirst, HeadTailProperties
<1>2. n >= 1 /\ n - 1 \in 0..Len(Tail(s))
  BY <1>1
<1>3. /\ Leading(s, S) \in Seq(S)
      /\ Len(Leading(s, S)) = n
      /\ \A i \in 1..n : Leading(s, S)[i] = s[i]
  BY LeadingPrefix
<1>4. Leading(s, S) # <<>>
  BY <1>2, <1>3, EmptySeq
<1>5. Head(Leading(s, S)) = Head(s)
  BY <1>1, <1>2, <1>3, <1>4, HeadIsFirst
<1>6. \A i \in 1..Len(Tail(s)) : Tail(s)[i] \in S <=> i <= n - 1
  BY <1>1, <1>2
<1>7. /\ Leading(Tail(s), S) \in Seq(S)
      /\ Len(Leading(Tail(s), S)) = n - 1
      /\ \A i \in 1..n - 1 : Leading(Tail(s), S)[i] = Tail(s)[i]
  <2> DEFINE r == Tail(s)
             m == n - 1
  <2>1. r \in Seq(U) /\ m \in 0..Len(r) /\ \A i \in 1..Len(r) : r[i] \in S <=> i <= m
    BY <1>1, <1>2, <1>6
  <2> HIDE DEF r, m
  <2>2. /\ Leading(r, S) \in Seq(S)
        /\ Len(Leading(r, S)) = m
        /\ \A i \in 1..m : Leading(r, S)[i] = r[i]
    BY <2>1, LeadingPrefix
  <2> QED BY <2>2 DEF r, m
<1>8. /\ Tail(Leading(s, S)) \in Seq(S)
      /\ Len(Tail(Leading(s, S))) = n - 1
      /\ \A i \in 1..n - 1 : Tail(Leading(s, S))[i] = Leading(s, S)[i + 1]
  BY <1>3, <1>4, HeadTailProperties
<1>9. \A i \in 1..n - 1 : Leading(Tail(s), S)[i] = Tail(Leading(s, S))[i]
  BY <1>1, <1>2, <1>3, <1>7, <1>8
<1>10. Leading(Tail(s), S) = Tail(Leading(s, S))
  BY <1>7, <1>8, <1>9, SeqEqual
<1> QED BY <1>2, <1>4, <1>5, <1>6, <1>10

\* Taking the head of the first of two lists, and adding to the end of the second.
LEMMA ConcatEnds ==
    ASSUME NEW S, NEW s \in Seq(S), NEW t \in Seq(S)
    PROVE  /\ s # <<>> => /\ s \o t # <<>>
                          /\ Head(s \o t) = Head(s)
                          /\ Tail(s \o t) = Tail(s) \o t
           /\ \A x \in S : s \o Append(t, x) = Append(s \o t, x)
<1>1. /\ Len(s) \in Nat /\ Len(t) \in Nat
      /\ s \o t \in Seq(S)
      /\ Len(s \o t) = Len(s) + Len(t)
      /\ \A i \in 1..Len(s) + Len(t) : (s \o t)[i] =
            IF i <= Len(s) THEN s[i] ELSE t[i - Len(s)]
  BY ConcatProperties, LenProperties
<1>2. ASSUME s # <<>>
      PROVE  s \o t # <<>> /\ Head(s \o t) = Head(s) /\ Tail(s \o t) = Tail(s) \o t
  <2>1. Len(s) # 0
    BY <1>2, EmptySeq
  <2>2. s \o t # <<>>
    BY <1>1, <2>1, EmptySeq
  <2>3. Head(s \o t) = Head(s)
    BY <1>1, <1>2, <2>1, <2>2, HeadIsFirst
  <2>4. /\ Tail(s) \in Seq(S) /\ Len(Tail(s)) = Len(s) - 1
        /\ \A i \in 1..Len(s) - 1 : Tail(s)[i] = s[i + 1]
        /\ Tail(s \o t) \in Seq(S) /\ Len(Tail(s \o t)) = Len(s) + Len(t) - 1
        /\ \A i \in 1..Len(s) + Len(t) - 1 : Tail(s \o t)[i] = (s \o t)[i + 1]
    BY <1>1, <1>2, <2>2, HeadTailProperties
  <2>5. /\ Tail(s) \o t \in Seq(S)
        /\ Len(Tail(s) \o t) = Len(s) - 1 + Len(t)
        /\ \A i \in 1..Len(s) - 1 + Len(t) : (Tail(s) \o t)[i] =
              IF i <= Len(s) - 1 THEN Tail(s)[i] ELSE t[i - (Len(s) - 1)]
    BY <2>4, ConcatProperties
  <2>6. \A i \in 1..Len(s) + Len(t) - 1 : Tail(s \o t)[i] = (Tail(s) \o t)[i]
    <3> SUFFICES ASSUME NEW i \in 1..Len(s) + Len(t) - 1
                 PROVE  Tail(s \o t)[i] = (Tail(s) \o t)[i]
      OBVIOUS
    <3>1. Tail(s \o t)[i] = IF i + 1 <= Len(s) THEN s[i + 1] ELSE t[i + 1 - Len(s)]
      BY <1>1, <2>1, <2>4
    <3>2. (Tail(s) \o t)[i] = IF i <= Len(s) - 1 THEN s[i + 1] ELSE t[i - (Len(s) - 1)]
      BY <1>1, <2>1, <2>4, <2>5
    <3>3. i + 1 - Len(s) = i - (Len(s) - 1) /\ (i + 1 <= Len(s) <=> i <= Len(s) - 1)
      BY <1>1
    <3> QED BY <3>1, <3>2, <3>3
  <2>7. Len(Tail(s \o t)) = Len(Tail(s) \o t)
    BY <1>1, <2>4, <2>5
  <2>8. Tail(s \o t) = Tail(s) \o t
    <3> DEFINE a == Tail(s \o t)
               b == Tail(s) \o t
    <3>1. a \in Seq(S) /\ b \in Seq(S) /\ Len(a) = Len(b)
          /\ \A i \in 1..Len(a) : a[i] = b[i]
      BY <2>4, <2>5, <2>6, <2>7
    <3> HIDE DEF a, b
    <3>2. a = b
      BY <3>1, SeqEqual
    <3> QED BY <3>2 DEF a, b
  <2> QED BY <2>2, <2>3, <2>8
<1>3. ASSUME NEW x \in S PROVE s \o Append(t, x) = Append(s \o t, x)
  <2>1. Append(t, x) = t \o <<x>> /\ Append(s \o t, x) = (s \o t) \o <<x>> /\ <<x>> \in Seq(S)
    BY <1>1, AppendIsConcat
  <2> QED BY <2>1, ConcatAssociative
<1> QED BY <1>2, <1>3

\* A set of threads that one thread joins has one more of them.
LEMMA AddOne ==
    ASSUME NEW S, IsFiniteSet(S), NEW x, x \notin S
    PROVE  Cardinality(S \cup {x}) = Cardinality(S) + 1
BY FS_AddElement

\* A set of threads that one thread leaves has one less of them.
LEMMA RemoveOne ==
    ASSUME NEW S, IsFiniteSet(S), NEW x \in S
    PROVE  Cardinality(S \ {x}) = Cardinality(S) - 1
BY FS_RemoveElement

===============================================================================
