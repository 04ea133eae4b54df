------------------------ MODULE PriorityQueueSpec_proof ------------------------
(***************************************************************************)
(* The queue's contents are well typed and stand in removal order, for     *)
(* every set of priorities and every number of pushes.                     *)
(***************************************************************************)
EXTENDS PriorityQueueSpec, SequenceTheorems, TLAPS

\* Putting an entry at a place of the list gives a list one longer, with the
\* old entries around it in their old order.
LEMMA InsertedAtProperties ==
    ASSUME NEW S, NEW s \in Seq(S), NEW e \in S, NEW k \in 1..Len(s) + 1
    PROVE  /\ InsertedAt(s, k, e) \in Seq(S)
           /\ Len(InsertedAt(s, k, e)) = Len(s) + 1
           /\ \A i \in 1..Len(s) + 1 :
                InsertedAt(s, k, e)[i] =
                    IF i < k THEN s[i] ELSE IF i = k THEN e ELSE s[i - 1]
<1>1. Len(s) \in Nat /\ \A i \in 1..Len(s) : s[i] \in S
  BY LenProperties, ElementOfSeq
<1>2. \A i \in 1..Len(s) + 1 :
        (IF i < k THEN s[i] ELSE IF i = k THEN e ELSE s[i - 1]) \in S
  BY <1>1
<1>3. InsertedAt(s, k, e) \in [1..Len(s) + 1 -> S]
  BY <1>2 DEF InsertedAt
<1>4. Len(s) + 1 \in Nat
  BY <1>1
<1>5. InsertedAt(s, k, e) \in Seq(S)
  BY <1>3, <1>4, SeqDef
<1>6. Len(InsertedAt(s, k, e)) = Len(s) + 1
  BY <1>3, <1>4, <1>5, LenProperties
<1> QED BY <1>5, <1>6 DEF InsertedAt

\* Type correctness: the queue holds entries and counts its pushes.
THEOREM TypeCorrect == Spec => []TypeOK
<1>1. Init => TypeOK
  BY SpecAssumption DEF Init, TypeOK
<1>2. TypeOK /\ [Next]_vars => TypeOK'
  <2> SUFFICES ASSUME TypeOK, [Next]_vars PROVE TypeOK'
    OBVIOUS
  <2>1. ASSUME NEW p \in Priority, NEW first \in BOOLEAN, Push(p, first)
        PROVE  TypeOK'
    <3>1. PICK k \in 1..Len(queue) + 1 :
            queue' = InsertedAt(queue, k,
                        [prio |-> p, first |-> first, id |-> pushes + 1])
      BY <2>1 DEF Push
    <3>2. pushes + 1 \in 1..MaxPushes
      BY <2>1, SpecAssumption DEF Push, TypeOK
    <3>3. [prio |-> p, first |-> first, id |-> pushes + 1] \in Entry
      BY <3>2 DEF Entry
    <3>4. queue' \in Seq(Entry)
      BY <3>1, <3>3, InsertedAtProperties DEF TypeOK
    <3> QED BY <2>1, <3>2, <3>4, SpecAssumption DEF Push, TypeOK
  <2>2. CASE Pop
    BY <2>2, HeadTailProperties DEF Pop, TypeOK
  <2>3. CASE Clear
    BY <2>3 DEF Clear, TypeOK
  <2>4. CASE UNCHANGED vars
    BY <2>4 DEF vars, TypeOK
  <2> QED BY <2>1, <2>2, <2>3, <2>4 DEF Next
<1> QED BY <1>1, <1>2, PTL DEF Spec

\* What the order of removal rests on: every entry was pushed, in removal order.
IInv == /\ TypeOK
        /\ \A i \in 1..Len(queue) : queue[i].id <= pushes
        /\ RemovalOrder

\* Drain order: urgent entries first, equals in the order their pushes ask for.
THEOREM RemovalOrderHolds == Spec => []RemovalOrder
<1>1. Init => IInv
  BY SpecAssumption DEF Init, IInv, TypeOK, RemovalOrder
<1>2. IInv /\ TypeOK' /\ [Next]_vars => IInv'
  <2> SUFFICES ASSUME IInv, TypeOK', [Next]_vars PROVE IInv'
    OBVIOUS
  <2>0. \A i \in 1..Len(queue) : queue[i] \in Entry
    BY ElementOfSeq DEF IInv, TypeOK
  <2>1. ASSUME NEW p \in Priority, NEW first \in BOOLEAN, Push(p, first)
        PROVE  IInv'
    <3> DEFINE e == [prio |-> p, first |-> first, id |-> pushes + 1]
    <3>1. PICK k \in 1..Len(queue) + 1 : /\ IsSlot(queue, p, first, k)
                                         /\ queue' = InsertedAt(queue, k, e)
      BY <2>1 DEF Push
    <3>2. e \in Entry /\ pushes + 1 \in 1..MaxPushes
      BY <2>1, SpecAssumption DEF Push, IInv, TypeOK, Entry
    <3>3. /\ Len(queue') = Len(queue) + 1
          /\ \A i \in 1..Len(queue) + 1 :
                queue'[i] = IF i < k THEN queue[i]
                            ELSE IF i = k THEN e ELSE queue[i - 1]
      BY <3>1, <3>2, InsertedAtProperties DEF IInv, TypeOK
    <3>4. Len(queue) \in Nat /\ pushes \in Nat /\ pushes' = pushes + 1
      BY <2>1, LenProperties, SpecAssumption DEF IInv, TypeOK, Push
    <3>5. ASSUME NEW i \in 1..Len(queue), i < k PROVE Before(queue[i], e)
      <4>1. /\ queue[i].prio \in Int /\ queue[i].first \in BOOLEAN /\ p \in Int
            /\ queue[i].id < e.id
            /\ e.prio = p /\ e.first = first
        <5>1. queue[i].prio \in Priority /\ queue[i].id \in 1..MaxPushes
          BY <2>0 DEF Entry
        <5>2. queue[i].first \in BOOLEAN
          BY <2>0 DEF Entry
        <5>3. queue[i].id <= pushes
          BY DEF IInv
        <5>4. e.prio = p /\ e.id = pushes + 1
          OBVIOUS
        <5>5. e.first = first
          OBVIOUS
        <5>6. queue[i].id < e.id
          BY <3>4, <5>1, <5>3, <5>4, SpecAssumption
        <5> HIDE DEF e
        <5> QED BY <5>1, <5>2, <5>4, <5>5, <5>6, SpecAssumption
      <4>2. StaysAhead(queue[i], p, first)
        BY <3>1, <3>5 DEF IsSlot
      <4>3. CASE first
        BY <4>1, <4>2, <4>3 DEF StaysAhead, Before
      <4>4. CASE ~first
        <5>1. queue[i].prio < p \/ queue[i].prio = p
          BY <4>1, <4>2, <4>4 DEF StaysAhead
        <5> QED BY <4>1, <4>4, <5>1, Zenon DEF Before
      <4> QED BY <4>3, <4>4
    <3>6. ASSUME NEW i \in 1..Len(queue), ~(i < k) PROVE Before(e, queue[i])
      <4>1. /\ queue[i].prio \in Int /\ queue[i].first \in BOOLEAN /\ p \in Int
            /\ queue[i].id < e.id
            /\ e.prio = p /\ e.first = first
        <5>1. queue[i].prio \in Priority /\ queue[i].id \in 1..MaxPushes
          BY <2>0 DEF Entry
        <5>2. queue[i].first \in BOOLEAN
          BY <2>0 DEF Entry
        <5>3. queue[i].id <= pushes
          BY DEF IInv
        <5>4. e.prio = p /\ e.id = pushes + 1
          OBVIOUS
        <5>5. e.first = first
          OBVIOUS
        <5>6. queue[i].id < e.id
          BY <3>4, <5>1, <5>3, <5>4, SpecAssumption
        <5> HIDE DEF e
        <5> QED BY <5>1, <5>2, <5>4, <5>5, <5>6, SpecAssumption
      <4>2. ~StaysAhead(queue[i], p, first)
        BY <3>1, <3>6 DEF IsSlot
      <4>3. CASE first
        <5>1. p < queue[i].prio \/ p = queue[i].prio
          BY <4>1, <4>2, <4>3 DEF StaysAhead
        <5> QED BY <4>1, <4>3, <5>1, Zenon DEF Before
      <4>4. CASE ~first
        BY <4>1, <4>2, <4>4 DEF StaysAhead, Before
      <4> QED BY <4>3, <4>4
    <3>7. \A i \in 1..Len(queue') : queue'[i].id <= pushes'
      <4> SUFFICES ASSUME NEW i \in 1..Len(queue') PROVE queue'[i].id <= pushes'
        OBVIOUS
      <4>1. CASE i = k
        BY <4>1, <3>3, <3>4
      <4>2. CASE i < k
        BY <4>2, <2>0, <3>3, <3>4 DEF IInv, Entry
      <4>3. CASE i > k
        <5>1. i - 1 \in 1..Len(queue) /\ queue'[i] = queue[i - 1]
          BY <4>3, <3>3, <3>4
        <5> QED BY <5>1, <2>0, <3>4 DEF IInv, Entry
      <4> QED BY <4>1, <4>2, <4>3, <3>3, <3>4
    <3>8. RemovalOrder'
      <4> SUFFICES ASSUME NEW i \in 1..Len(queue'), NEW j \in 1..Len(queue'),
                          i < j
                   PROVE  Before(queue'[i], queue'[j])
        BY DEF RemovalOrder, Before
      <4>1. CASE j < k
        BY <4>1, <3>3, <3>4 DEF IInv, RemovalOrder
      <4>2. CASE j = k
        BY <4>2, <3>3, <3>4, <3>5
      <4>3. CASE i < k /\ k < j
        <5>1. /\ i \in 1..Len(queue) /\ j - 1 \in 1..Len(queue) /\ i < j - 1
              /\ queue'[i] = queue[i] /\ queue'[j] = queue[j - 1]
          BY <4>3, <3>3, <3>4
        <5> QED BY <5>1 DEF IInv, RemovalOrder
      <4>4. CASE i = k
        <5>1. j - 1 \in 1..Len(queue) /\ ~(j - 1 < k) /\ queue'[j] = queue[j - 1]
          BY <4>4, <3>3, <3>4
        <5> QED BY <4>4, <5>1, <3>3, <3>6
      <4>5. CASE k < i
        <5>1. /\ i - 1 \in 1..Len(queue) /\ j - 1 \in 1..Len(queue)
              /\ i - 1 < j - 1
              /\ queue'[i] = queue[i - 1] /\ queue'[j] = queue[j - 1]
          BY <4>5, <3>3, <3>4
        <5> QED BY <5>1 DEF IInv, RemovalOrder
      <4> QED BY <4>1, <4>2, <4>3, <4>4, <4>5, <3>3, <3>4
    <3> QED BY <3>7, <3>8 DEF IInv
  <2>2. CASE Pop
    <3>1. /\ Len(queue) \in Nat /\ Len(queue') = Len(queue) - 1
          /\ pushes' = pushes
          /\ \A i \in 1..Len(queue') : queue'[i] = queue[i + 1]
      BY <2>2, HeadTailProperties, LenProperties DEF Pop, IInv, TypeOK
    <3>2. \A i \in 1..Len(queue') : queue'[i].id <= pushes'
      BY <3>1 DEF IInv
    <3>3. RemovalOrder'
      <4> SUFFICES ASSUME NEW i \in 1..Len(queue'), NEW j \in 1..Len(queue'),
                          i < j
                   PROVE  Before(queue'[i], queue'[j])
        BY DEF RemovalOrder, Before
      <4>1. /\ i + 1 \in 1..Len(queue) /\ j + 1 \in 1..Len(queue)
            /\ i + 1 < j + 1
            /\ queue'[i] = queue[i + 1] /\ queue'[j] = queue[j + 1]
        BY <3>1
      <4> QED BY <4>1 DEF IInv, RemovalOrder
    <3> QED BY <3>2, <3>3 DEF IInv
  <2>3. CASE Clear
    BY <2>3 DEF Clear, IInv, RemovalOrder
  <2>4. CASE UNCHANGED vars
    BY <2>4 DEF vars, IInv, RemovalOrder, Before
  <2> QED BY <2>1, <2>2, <2>3, <2>4 DEF Next
<1>3. IInv => RemovalOrder
  BY DEF IInv
<1> QED BY <1>1, <1>2, <1>3, TypeCorrect, PTL DEF Spec

===============================================================================
