----------------------------- MODULE RefCount_proof -----------------------------
(***************************************************************************)
(* Proofs about Ref and Rc: for every number of threads, objects and       *)
(* variables the count of an object is that of the references to it,       *)
(* nobody touches an object that has been deleted, and the leak tracker    *)
(* has the numbers of the references that there are.                       *)
(***************************************************************************)
EXTENDS RefCount, SequenceTheorems, FiniteSetTheorems, TLAPS

-------------------------------------------------------------------------------
\* What a thread has left to do, as a stack: the steps of its operation, with the
\* destructors that a release has led to in front of what follows it.

Plain == [do : {"increment", "track", "decrement", "free"}, obj : Objects]
Untracks == [do : {"untrack"}, obj : Objects, id : Id]
Stores == [do : {"store"}, slot : Slots, ptr : Objects \cup {NULL}]
Takes == [do : {"take"}, slot : Slots, src : Slots]
Steps == Plain \cup Untracks \cup Stores \cup Takes

Writes(e) == e.do = "store" \/ e.do = "take"

\* Step i of z is where it may be: an operation ends with its write, a retain comes first,
\* a release is followed by a write, and deletes are nested.
Place(z, i) ==
    /\ z[i].do = "take" => i = Len(z)
    /\ z[i].do = "store" /\ i # Len(z) =>
        z[i].ptr = NULL /\ z[i].slot \in Owners /\ z[i + 1].do = "free" /\ z[i + 1].obj = z[i].slot
    /\ z[i].do = "free" => Writes(z[i + 1])
    /\ z[i].do = "free" => \A j \in 1..Len(z) : z[j].do = "free" /\ z[j].obj = z[i].obj => j = i
    /\ z[i].do = "increment" => i = 1 /\ z[2].do = "track" /\ z[2].obj = z[1].obj
    /\ z[i].do = "track" =>
        /\ i = 1 \/ (i = 2 /\ z[1].do = "increment")
        /\ z[Len(z)].do = "store" /\ z[Len(z)].ptr = z[i].obj
    /\ z[i].do = "untrack" => z[i + 1].do = "decrement" /\ z[i + 1].obj = z[i].obj
    /\ z[i].do = "decrement" =>
        /\ Writes(z[i + 1])
        /\ \A j \in 1..i - 1 : z[j].do \in {"increment", "track", "untrack"}

Stack(z) ==
    /\ z \in Seq(Steps)
    /\ z # <<>> => Writes(z[Len(z)])
    /\ \A i \in 1..Len(z) : Place(z, i)

Final(z) == z[Len(z)]
Has(z, what, o) == \E i \in 1..Len(z) : z[i].do = what /\ z[i].obj = o
Puts(z, s) == \E i \in 1..Len(z) : Writes(z[i]) /\ z[i].slot = s
Forgets(z, o, n) == \E i \in 1..Len(z) : z[i].do = "untrack" /\ z[i].obj = o /\ z[i].id = n

\* e may come before y.
Fits(e, y) ==
    /\ e.do # "take"
    /\ y[1].do # "increment"
    /\ y[1].do = "track" => e.do = "increment"
    /\ e.do = "store" => e.ptr = NULL /\ e.slot \in Owners /\ y[1].do = "free" /\ y[1].obj = e.slot
    /\ e.do = "free" => Writes(y[1]) /\ ~Has(y, "free", e.obj)
    /\ e.do = "increment" => y[1].do = "track" /\ y[1].obj = e.obj
    /\ e.do = "track" => Final(y).do = "store" /\ Final(y).ptr = e.obj
    /\ e.do = "untrack" => y[1].do = "decrement" /\ y[1].obj = e.obj
    /\ e.do = "decrement" => Writes(y[1])
    /\ e.do \in {"store", "free", "decrement"} => \A i \in 1..Len(y) : y[i].do # "decrement"

LEMMA StepIs ==
    ASSUME NEW e \in Steps
    PROVE  /\ e.do \in {"increment", "track", "untrack", "decrement", "free", "store", "take"}
           /\ e.do \in {"increment", "track", "untrack", "decrement", "free"} => e.obj \in Objects
           /\ e.do = "untrack" => e.id \in Id
           /\ e.do = "store" => e.slot \in Slots /\ e.ptr \in Objects \cup {NULL}
           /\ e.do = "take" => e.slot \in Slots /\ e.src \in Slots
<1>1. CASE e \in Plain
  BY <1>1 DEF Plain
<1>2. CASE e \in Untracks
  BY <1>2 DEF Untracks
<1>3. CASE e \in Stores
  BY <1>3 DEF Stores
<1>4. CASE e \in Takes
  BY <1>4 DEF Takes
<1> QED BY <1>1, <1>2, <1>3, <1>4 DEF Steps

LEMMA ConsIs ==
    ASSUME NEW e \in Steps, NEW y \in Seq(Steps)
    PROVE  /\ <<e>> \o y \in Seq(Steps) /\ Len(<<e>> \o y) = Len(y) + 1 /\ <<e>> \o y # <<>>
           /\ Len(y) \in Nat
           /\ (<<e>> \o y)[1] = e
           /\ \A i \in 1..Len(y) : (<<e>> \o y)[i + 1] = y[i] /\ y[i] \in Steps
           /\ Head(<<e>> \o y) = e /\ Tail(<<e>> \o y) = y
           /\ y # <<>> => Len(y) # 0 /\ Final(<<e>> \o y) = Final(y)
<1>1. <<e>> \in Seq(Steps) /\ Len(<<e>>) = 1 /\ <<e>>[1] = e
  OBVIOUS
<1>2. Len(y) \in Nat /\ \A i \in 1..Len(y) : y[i] \in Steps
  BY LenProperties, ElementOfSeq
<1>3. /\ <<e>> \o y \in Seq(Steps) /\ Len(<<e>> \o y) = Len(y) + 1
      /\ \A i \in 1..Len(y) + 1 : (<<e>> \o y)[i] = IF i = 1 THEN e ELSE y[i - 1]
  BY <1>1, <1>2, ConcatProperties
<1>4. (<<e>> \o y)[1] = e /\ \A i \in 1..Len(y) : (<<e>> \o y)[i + 1] = y[i]
  BY <1>2, <1>3
<1>5. <<e>> \o y # <<>>
  BY <1>2, <1>3
<1>6. Head(<<e>> \o y) = e
  BY <1>3, <1>4, <1>5, HeadTailProperties
<1>7. Tail(<<e>> \o y) = y
  <2> DEFINE q == Tail(<<e>> \o y)
  <2>1. /\ q \in Seq(Steps) /\ Len(q) = Len(<<e>> \o y) - 1
        /\ \A i \in 1..Len(q) : q[i] = (<<e>> \o y)[i + 1]
    BY <1>3, <1>5, HeadTailProperties
  <2>2. Len(q) = Len(y)
    BY <1>2, <1>3, <2>1
  <2>3. \A i \in 1..Len(y) : q[i] = y[i]
    BY <1>4, <2>1, <2>2
  <2> HIDE DEF q
  <2>4. q = y
    BY <2>1, <2>2, <2>3, SeqEqual
  <2> QED BY <2>4 DEF q
<1>8. y # <<>> => Len(y) # 0
  BY EmptySeq
<1>9. y # <<>> => Final(<<e>> \o y) = Final(y)
  BY <1>2, <1>3, <1>4, <1>8 DEF Final
<1> QED BY <1>2, <1>3, <1>4, <1>5, <1>6, <1>7, <1>8, <1>9

LEMMA HasCons ==
    ASSUME NEW e \in Steps, NEW y \in Seq(Steps), NEW what, NEW o
    PROVE  Has(<<e>> \o y, what, o) <=> (e.do = what /\ e.obj = o) \/ Has(y, what, o)
<1> DEFINE z == <<e>> \o y
<1>1. /\ Len(z) = Len(y) + 1 /\ Len(y) \in Nat /\ z[1] = e
      /\ \A i \in 1..Len(y) : z[i + 1] = y[i]
  BY ConsIs
<1> HIDE DEF z
<1>2. ASSUME Has(z, what, o) PROVE (e.do = what /\ e.obj = o) \/ Has(y, what, o)
  <2>1. PICK i \in 1..Len(z) : z[i].do = what /\ z[i].obj = o
    BY <1>2 DEF Has
  <2>2. CASE i = 1
    BY <1>1, <2>1, <2>2
  <2>3. CASE i # 1
    <3>1. i - 1 \in 1..Len(y) /\ i - 1 + 1 = i
      BY <1>1, <2>3
    <3>2. z[i] = y[i - 1]
      BY <1>1, <3>1
    <3> QED BY <2>1, <3>1, <3>2 DEF Has
  <2> QED BY <2>2, <2>3
<1>3. ASSUME e.do = what, e.obj = o PROVE Has(z, what, o)
  <2>1. 1 \in 1..Len(z)
    BY <1>1
  <2> QED BY <1>1, <1>3, <2>1 DEF Has
<1>4. ASSUME Has(y, what, o) PROVE Has(z, what, o)
  <2>1. PICK i \in 1..Len(y) : y[i].do = what /\ y[i].obj = o
    BY <1>4 DEF Has
  <2>2. i + 1 \in 1..Len(z) /\ z[i + 1] = y[i]
    BY <1>1
  <2> QED BY <2>1, <2>2 DEF Has
<1> QED BY <1>2, <1>3, <1>4 DEF z

LEMMA PutsCons ==
    ASSUME NEW e \in Steps, NEW y \in Seq(Steps), NEW s
    PROVE  Puts(<<e>> \o y, s) <=> (Writes(e) /\ e.slot = s) \/ Puts(y, s)
<1> DEFINE z == <<e>> \o y
<1>1. /\ Len(z) = Len(y) + 1 /\ Len(y) \in Nat /\ z[1] = e
      /\ \A i \in 1..Len(y) : z[i + 1] = y[i]
  BY ConsIs
<1> HIDE DEF z
<1>2. ASSUME Puts(z, s) PROVE (Writes(e) /\ e.slot = s) \/ Puts(y, s)
  <2>1. PICK i \in 1..Len(z) : Writes(z[i]) /\ z[i].slot = s
    BY <1>2 DEF Puts
  <2>2. CASE i = 1
    BY <1>1, <2>1, <2>2
  <2>3. CASE i # 1
    <3>1. i - 1 \in 1..Len(y) /\ i - 1 + 1 = i
      BY <1>1, <2>3
    <3>2. z[i] = y[i - 1]
      BY <1>1, <3>1
    <3> QED BY <2>1, <3>1, <3>2 DEF Puts
  <2> QED BY <2>2, <2>3
<1>3. ASSUME Writes(e), e.slot = s PROVE Puts(z, s)
  <2>1. 1 \in 1..Len(z)
    BY <1>1
  <2> QED BY <1>1, <1>3, <2>1 DEF Puts
<1>4. ASSUME Puts(y, s) PROVE Puts(z, s)
  <2>1. PICK i \in 1..Len(y) : Writes(y[i]) /\ y[i].slot = s
    BY <1>4 DEF Puts
  <2>2. i + 1 \in 1..Len(z) /\ z[i + 1] = y[i]
    BY <1>1
  <2> QED BY <2>1, <2>2 DEF Puts
<1> QED BY <1>2, <1>3, <1>4 DEF z

LEMMA ForgetsCons ==
    ASSUME NEW e \in Steps, NEW y \in Seq(Steps), NEW o, NEW n
    PROVE  Forgets(<<e>> \o y, o, n) <=> (e.do = "untrack" /\ e.obj = o /\ e.id = n) \/ Forgets(y, o, n)
<1> DEFINE z == <<e>> \o y
<1>1. /\ Len(z) = Len(y) + 1 /\ Len(y) \in Nat /\ z[1] = e
      /\ \A i \in 1..Len(y) : z[i + 1] = y[i]
  BY ConsIs
<1> HIDE DEF z
<1>2. ASSUME Forgets(z, o, n) PROVE (e.do = "untrack" /\ e.obj = o /\ e.id = n) \/ Forgets(y, o, n)
  <2>1. PICK i \in 1..Len(z) : z[i].do = "untrack" /\ z[i].obj = o /\ z[i].id = n
    BY <1>2 DEF Forgets
  <2>2. CASE i = 1
    BY <1>1, <2>1, <2>2
  <2>3. CASE i # 1
    <3>1. i - 1 \in 1..Len(y) /\ i - 1 + 1 = i
      BY <1>1, <2>3
    <3>2. z[i] = y[i - 1]
      BY <1>1, <3>1
    <3> QED BY <2>1, <3>1, <3>2 DEF Forgets
  <2> QED BY <2>2, <2>3
<1>3. ASSUME e.do = "untrack", e.obj = o, e.id = n PROVE Forgets(z, o, n)
  <2>1. 1 \in 1..Len(z)
    BY <1>1
  <2> QED BY <1>1, <1>3, <2>1 DEF Forgets
<1>4. ASSUME Forgets(y, o, n) PROVE Forgets(z, o, n)
  <2>1. PICK i \in 1..Len(y) : y[i].do = "untrack" /\ y[i].obj = o /\ y[i].id = n
    BY <1>4 DEF Forgets
  <2>2. i + 1 \in 1..Len(z) /\ z[i + 1] = y[i]
    BY <1>1
  <2> QED BY <2>1, <2>2 DEF Forgets
<1> QED BY <1>2, <1>3, <1>4 DEF z

LEMMA PairIs ==
    ASSUME NEW a \in Steps, NEW b \in Steps
    PROVE  <<a, b>> = <<a>> \o <<b>>
<1>1. <<a>> \in Seq(Steps) /\ <<b>> \in Seq(Steps) /\ <<a, b>> \in Seq(Steps)
  OBVIOUS
<1>2. /\ Len(<<a>>) = 1 /\ Len(<<b>>) = 1 /\ Len(<<a, b>>) = 2
      /\ <<a>>[1] = a /\ <<b>>[1] = b /\ <<a, b>>[1] = a /\ <<a, b>>[2] = b
  OBVIOUS
<1> DEFINE x == <<a>>
           y == <<b>>
           z == <<a, b>>
           w == x \o y
<1>3. /\ x \in Seq(Steps) /\ y \in Seq(Steps) /\ z \in Seq(Steps)
      /\ Len(x) = 1 /\ Len(y) = 1 /\ Len(z) = 2 /\ x[1] = a /\ y[1] = b /\ z[1] = a /\ z[2] = b
  BY <1>1, <1>2
<1> HIDE DEF x, y, z
<1>4. /\ w \in Seq(Steps) /\ Len(w) = Len(x) + Len(y)
      /\ \A i \in 1..Len(x) + Len(y) : w[i] = IF i <= Len(x) THEN x[i] ELSE y[i - Len(x)]
  BY <1>3, ConcatProperties
<1>5. \A i \in 1..Len(z) : z[i] = w[i]
  BY <1>3, <1>4
<1> HIDE DEF w
<1>6. z = w
  BY <1>3, <1>4, <1>5, SeqEqual
<1> QED BY <1>6 DEF x, y, z, w

LEMMA HasNot ==
    ASSUME NEW z, NEW what, \A o : ~Has(z, what, o)
    PROVE  \A i \in 1..Len(z) : z[i].do # what
BY DEF Has

LEMMA HasNothing == \A what, o, s : ~Has(<<>>, what, o) /\ ~Puts(<<>>, s)
BY DEF Has, Puts

\* What may come before a stack makes another one.
LEMMA StackCons ==
    ASSUME NEW e \in Steps, NEW y, Stack(y), y # <<>>, Fits(e, y)
    PROVE  Stack(<<e>> \o y)
<1> DEFINE z == <<e>> \o y
           n == Len(y)
<1>1. y \in Seq(Steps)
  BY DEF Stack
<1>2. /\ z \in Seq(Steps) /\ Len(z) = n + 1 /\ n \in Nat \ {0} /\ z[1] = e
      /\ \A i \in 1..n : z[i + 1] = y[i]
      /\ Final(z) = Final(y)
  BY <1>1, ConsIs
<1>3. \A o : Has(z, "free", o) <=> (e.do = "free" /\ e.obj = o) \/ Has(y, "free", o)
  BY <1>1, HasCons
<1> HIDE DEF z, n
<1>4. Writes(z[Len(z)])
  BY <1>2 DEF Stack, Final, n
<1>5. Place(z, 1)
  <2>1. z[2] = y[1] /\ z[1] = e /\ 1 # Len(z) /\ 1..0 = {}
    <3>1. 1 \in 1..n
      BY <1>2
    <3> QED BY <1>2, <3>1
  <2>2. ASSUME e.do = "free", NEW j \in 1..Len(z), z[j].do = "free", z[j].obj = e.obj
        PROVE  j = 1
    <3>1. SUFFICES ASSUME j # 1 PROVE FALSE
      OBVIOUS
    <3>2. j - 1 \in 1..n /\ j - 1 + 1 = j
      BY <1>2, <3>1
    <3>3. y[j - 1] = z[j]
      BY <1>2, <3>2
    <3>4. Has(y, "free", e.obj)
      BY <2>2, <3>2, <3>3 DEF Has, n
    <3> QED BY <2>2, <3>4 DEF Fits
  <2>3. z[Len(z)] = Final(y)
    BY <1>2 DEF Final
  <2> QED BY <2>1, <2>2, <2>3 DEF Fits, Place
<1>6. ASSUME NEW i \in 1..n PROVE Place(z, i + 1)
  <2>1. Place(y, i) /\ z[i + 1] = y[i] /\ (i + 1 = Len(z) <=> i = n) /\ i \in 1..Len(y)
    BY <1>2 DEF Stack, n
  <2>2. i # n => z[i + 1 + 1] = y[i + 1]
    BY <1>2
  <2>3. i = n => Writes(y[i])
    BY <1>2 DEF Stack, n
  <2>4. y[i].do \in {"free", "untrack", "decrement"} => i # n
    BY <2>3 DEF Writes
  <2>5. z[Len(z)] = y[Len(y)]
    BY <1>2 DEF Final
  <2>6. ASSUME y[i].do = "increment" PROVE FALSE
    BY <2>1, <2>6 DEF Place, Fits
  <2>7. ASSUME y[i].do = "track" PROVE i = 1 /\ e.do = "increment"
    <3>1. i = 1
      BY <2>1, <2>7 DEF Place, Fits
    <3> QED BY <3>1, <2>7 DEF Fits
  <2>8. ASSUME y[i].do = "free", NEW j \in 1..Len(z), z[j].do = "free", z[j].obj = y[i].obj
        PROVE  j = i + 1
    <3>1. Has(y, "free", y[i].obj)
      BY <2>1, <2>8 DEF Has
    <3>2. j # 1
      BY <1>2, <2>8, <3>1 DEF Fits
    <3>3. j - 1 \in 1..n /\ j - 1 + 1 = j
      BY <1>2, <3>2
    <3>4. y[j - 1] = z[j] /\ j - 1 \in 1..Len(y)
      BY <1>2, <3>3 DEF n
    <3>5. j - 1 = i
      BY <2>1, <2>8, <3>4 DEF Place
    <3> QED BY <3>3, <3>5
  <2>9. ASSUME y[i].do = "decrement", NEW j \in 1..i + 1 - 1
        PROVE  z[j].do \in {"increment", "track", "untrack"}
    <3>1. CASE j = 1
      <4>1. e.do \notin {"store", "free", "decrement", "take"}
        BY <2>1, <2>9 DEF Fits
      <4> QED BY <1>2, <3>1, <4>1, StepIs
    <3>2. CASE j # 1
      <4>1. j - 1 \in 1..i - 1 /\ j - 1 \in 1..n /\ j - 1 + 1 = j
        BY <1>2, <3>2
      <4>2. z[j] = y[j - 1]
        BY <1>2, <4>1
      <4> QED BY <2>1, <2>9, <4>1, <4>2 DEF Place
    <3> QED BY <3>1, <3>2
  <2>10. z[1] = e
    BY <1>2
  <2>11. \A j \in 1..Len(z) : y[i].do = "free" /\ z[j].do = "free" /\ z[j].obj = y[i].obj => j = i + 1
    BY <2>8
  <2>12. y[i].do = "decrement" => \A j \in 1..i + 1 - 1 : z[j].do \in {"increment", "track", "untrack"}
    BY <2>9
  <2>13. y[i].do = "take" => i = n
    BY <2>1 DEF Place, n
  <2>14. y[i].do = "store" /\ i # n =>
            y[i].ptr = NULL /\ y[i].slot \in Owners /\ y[i + 1].do = "free" /\ y[i + 1].obj = y[i].slot
    BY <2>1 DEF Place, n
  <2>15. /\ y[i].do = "free" => Writes(y[i + 1])
         /\ y[i].do = "untrack" => y[i + 1].do = "decrement" /\ y[i + 1].obj = y[i].obj
         /\ y[i].do = "decrement" => Writes(y[i + 1])
         /\ y[i].do = "track" => y[Len(y)].do = "store" /\ y[Len(y)].ptr = y[i].obj
    BY <2>1 DEF Place
  <2> QED BY <2>1, <2>2, <2>4, <2>5, <2>6, <2>7, <2>10, <2>11, <2>12, <2>13, <2>14, <2>15 DEF Place
<1>7. ASSUME NEW i \in 1..Len(z) PROVE Place(z, i)
  <2>1. CASE i = 1
    BY <1>5, <2>1
  <2>2. CASE i # 1
    <3>1. i - 1 \in 1..n /\ i - 1 + 1 = i
      BY <1>2, <2>2
    <3> QED BY <1>6, <3>1
  <2> QED BY <2>1, <2>2
<1>8. Stack(z)
  BY <1>2, <1>4, <1>7 DEF Stack
<1> QED BY <1>8 DEF z

LEMMA StackEmpty == Stack(<<>>)
BY DEF Stack

LEMMA StackOne ==
    ASSUME NEW e \in Steps, Writes(e)
    PROVE  /\ Stack(<<e>>) /\ <<e>> # <<>> /\ Final(<<e>>) = e /\ <<e>>[1] = e /\ Len(<<e>>) = 1
           /\ \A what, o : what \notin {"store", "take"} => ~Has(<<e>>, what, o)
<1>1. <<e>> \in Seq(Steps) /\ Len(<<e>>) = 1 /\ <<e>>[1] = e
  OBVIOUS
<1>2. Place(<<e>>, 1)
  BY <1>1 DEF Place, Writes
<1> QED BY <1>1, <1>2 DEF Stack, Final, Has, Writes

\* The head of a stack, and what follows it.
LEMMA StackPop ==
    ASSUME NEW z, Stack(z), z # <<>>
    PROVE  /\ Head(z) \in Steps /\ Stack(Tail(z)) /\ z = <<Head(z)>> \o Tail(z) /\ Head(z) = z[1]
           /\ Tail(z) # <<>> => Fits(Head(z), Tail(z)) /\ Final(Tail(z)) = Final(z)
           /\ Tail(z) = <<>> => Writes(Head(z)) /\ Final(z) = Head(z)
           /\ Tail(z) = <<>> <=> Len(z) = 1
<1> DEFINE e == Head(z)
           y == Tail(z)
           n == Len(y)
<1>1. z \in Seq(Steps) /\ \A i \in 1..Len(z) : Place(z, i)
  BY DEF Stack
<1>2. Len(z) \in Nat \ {0}
  BY <1>1, EmptySeq, LenProperties
<1>3. /\ e = z[1] /\ e \in Steps /\ y \in Seq(Steps) /\ n = Len(z) - 1
      /\ \A i \in 1..n : y[i] = z[i + 1]
  BY <1>1, <1>2, HeadTailProperties, ElementOfSeq
<1>4. z = <<e>> \o y
  <2>1. /\ <<e>> \o y \in Seq(Steps) /\ Len(<<e>> \o y) = n + 1 /\ (<<e>> \o y)[1] = e
        /\ \A i \in 1..n : (<<e>> \o y)[i + 1] = y[i]
    BY <1>3, ConsIs
  <2>2. ASSUME NEW i \in 1..Len(z) PROVE z[i] = (<<e>> \o y)[i]
    <3>1. CASE i = 1
      BY <1>3, <2>1, <3>1
    <3>2. CASE i # 1
      <4>1. i - 1 \in 1..n /\ i - 1 + 1 = i
        BY <1>2, <1>3, <3>2
      <4> QED BY <1>3, <2>1, <4>1
    <3> QED BY <3>1, <3>2
  <2>3. Len(z) = Len(<<e>> \o y)
    BY <1>2, <1>3, <2>1
  <2> QED BY <1>1, <2>1, <2>2, <2>3, SeqEqual
<1> HIDE DEF e, y, n
<1>5. n \in Nat /\ (y = <<>> <=> n = 0) /\ Len(z) = n + 1
  BY <1>2, <1>3, EmptySeq DEF n
<1>6. y # <<>> => Final(y) = Final(z)
  BY <1>3, <1>5 DEF Final, n
<1>7. y = <<>> => Writes(e) /\ Final(z) = e
  BY <1>3, <1>5 DEF Stack, Final
<1>8. ASSUME NEW i \in 1..n PROVE Place(y, i)
  <2>1. /\ Place(z, i + 1) /\ y[i] = z[i + 1] /\ i + 1 # 1 /\ (i + 1 = Len(z) <=> i = n)
        /\ i + 1 = 2 => i = 1
    BY <1>1, <1>3, <1>5
  <2>2. i # n => y[i + 1] = z[i + 1 + 1]
    BY <1>3
  <2>3. y[n] = z[Len(z)] /\ n = Len(y)
    BY <1>3, <1>5 DEF n
  <2>4. y[i].do \in {"free", "untrack", "decrement"} => i # n
    BY <1>2, <2>3 DEF Stack, Writes
  <2>5. ASSUME y[i].do = "increment" PROVE FALSE
    BY <2>1, <2>5 DEF Place
  <2>6. y[i].do = "track" => i = 1
    BY <2>1 DEF Place
  <2>7. ASSUME y[i].do = "free", NEW j \in 1..n, y[j].do = "free", y[j].obj = y[i].obj PROVE j = i
    <3>1. z[j + 1].do = "free" /\ z[j + 1].obj = z[i + 1].obj /\ j + 1 \in 1..Len(z)
      BY <1>3, <1>5, <2>1, <2>7
    <3>2. j + 1 = i + 1
      BY <2>1, <2>7, <3>1 DEF Place
    <3> QED BY <3>2
  <2>8. ASSUME y[i].do = "decrement", NEW j \in 1..i - 1
        PROVE  y[j].do \in {"increment", "track", "untrack"}
    <3>1. j + 1 \in 1..i + 1 - 1 /\ j \in 1..n
      BY <1>5
    <3>2. y[j] = z[j + 1]
      BY <1>3, <3>1
    <3> QED BY <2>1, <2>8, <3>1, <3>2 DEF Place
  <2>9. /\ y[i].do = "free" => \A j \in 1..Len(y) : y[j].do = "free" /\ y[j].obj = y[i].obj => j = i
        /\ y[i].do = "decrement" => \A j \in 1..i - 1 : y[j].do \in {"increment", "track", "untrack"}
    BY <2>3, <2>7, <2>8
  <2> QED BY <2>1, <2>2, <2>3, <2>4, <2>5, <2>6, <2>9 DEF Place
<1>9. Stack(y)
  <2>1. y # <<>> => Writes(y[n])
    BY <1>3, <1>5 DEF Stack
  <2> QED BY <1>3, <1>8, <2>1 DEF Stack, n
<1>10. ASSUME y # <<>> PROVE Fits(e, y)
  <2>1. Place(z, 1) /\ z[1] = e /\ 1 # Len(z) /\ z[2] = y[1] /\ Place(z, 2) /\ 1 \in 1..n
    <3>1. 1 \in 1..n /\ 1 \in 1..Len(z) /\ 2 \in 1..Len(z) /\ 1 # Len(z)
      BY <1>5, <1>10
    <3> QED BY <1>1, <1>3, <3>1
  <2>2. ASSUME e.do = "free" PROVE ~Has(y, "free", e.obj)
    <3>1. SUFFICES ASSUME NEW i \in 1..n, y[i].do = "free", y[i].obj = e.obj PROVE FALSE
      BY DEF Has, n
    <3>2. z[i + 1].do = "free" /\ z[i + 1].obj = e.obj /\ i + 1 \in 1..Len(z)
      BY <1>3, <1>5, <3>1
    <3>3. i + 1 = 1
      BY <2>1, <2>2, <3>2 DEF Place
    <3> QED BY <3>3
  <2>3. ASSUME e.do \in {"store", "free", "decrement"}, NEW i \in 1..n PROVE y[i].do # "decrement"
    <3>1. Place(z, i + 1) /\ z[i + 1] = y[i] /\ 1 \in 1..i + 1 - 1
      BY <1>1, <1>3, <1>5
    <3> QED BY <2>1, <2>3, <3>1 DEF Place
  <2>4. Final(y) = z[Len(z)]
    BY <1>6, <1>10 DEF Final
  <2>5. y[1].do # "increment" /\ (y[1].do = "track" => e.do = "increment")
    BY <2>1 DEF Place
  <2> QED BY <2>1, <2>2, <2>3, <2>4, <2>5 DEF Place, Fits, n
<1> QED BY <1>3, <1>4, <1>5, <1>6, <1>7, <1>9, <1>10 DEF e, y, n

\* What follows from the places.
LEMMA StackHas ==
    ASSUME NEW z, Stack(z)
    PROVE  /\ z # <<>> => Final(z) \in Steps /\ Writes(Final(z)) /\ Len(z) \in Nat \ {0}
           /\ \A o, what : Has(z, what, o) /\ what \in {"increment", "track", "untrack", "decrement", "free"}
                => o \in Objects /\ z # <<>>
           /\ \A o, p : Has(z, "decrement", o) /\ Has(z, "decrement", p) => o = p
           /\ \A s : Puts(z, s) => /\ z # <<>> /\ s \in Slots
                                   /\ s = Final(z).slot \/ (s \in Owners /\ Has(z, "free", s))
           /\ z # <<>> => Puts(z, Final(z).slot)
           /\ \A o : Has(z, "increment", o) <=> z # <<>> /\ z[1].do = "increment" /\ z[1].obj = o
<1>1. z \in Seq(Steps) /\ Len(z) \in Nat /\ (z = <<>> <=> Len(z) = 0)
  BY EmptySeq, LenProperties DEF Stack
<1>2. \A i \in 1..Len(z) : z[i] \in Steps /\ Place(z, i)
  BY <1>1, ElementOfSeq DEF Stack
<1>3. z # <<>> => Final(z) \in Steps /\ Writes(Final(z)) /\ Len(z) \in Nat \ {0}
  <2> SUFFICES ASSUME z # <<>> PROVE Final(z) \in Steps /\ Writes(Final(z)) /\ Len(z) # 0
    BY <1>1
  <2>1. Len(z) \in 1..Len(z)
    BY <1>1
  <2> QED BY <1>1, <1>2, <2>1 DEF Final, Stack
<1>4. ASSUME NEW o, NEW what, Has(z, what, o), what \in {"increment", "track", "untrack", "decrement", "free"}
      PROVE  o \in Objects /\ z # <<>>
  <2>1. PICK i \in 1..Len(z) : z[i].do = what /\ z[i].obj = o
    BY <1>4 DEF Has
  <2>2. z[i] \in Steps
    BY <1>2
  <2>3. Len(z) # 0
    BY <1>1, <2>1
  <2> QED BY <1>1, <1>4, <2>1, <2>2, <2>3, StepIs
<1>5. ASSUME NEW o, NEW p, Has(z, "decrement", o), Has(z, "decrement", p) PROVE o = p
  <2>1. PICK i \in 1..Len(z) : z[i].do = "decrement" /\ z[i].obj = o
    BY <1>5 DEF Has
  <2>2. PICK j \in 1..Len(z) : z[j].do = "decrement" /\ z[j].obj = p
    BY <1>5 DEF Has
  <2>3. ~(i \in 1..j - 1) /\ ~(j \in 1..i - 1)
    BY <1>2, <2>1, <2>2 DEF Place
  <2>4. i = j
    BY <1>1, <2>3
  <2> QED BY <2>1, <2>2, <2>4
<1>6. ASSUME NEW s, Puts(z, s)
      PROVE  z # <<>> /\ s \in Slots /\ (s = Final(z).slot \/ (s \in Owners /\ Has(z, "free", s)))
  <2>1. PICK i \in 1..Len(z) : Writes(z[i]) /\ z[i].slot = s
    BY <1>6 DEF Puts
  <2>2. z[i] \in Steps /\ Place(z, i) /\ Len(z) # 0
    BY <1>1, <1>2
  <2>3. s \in Slots
    BY <2>1, <2>2, StepIs DEF Writes
  <2>4. CASE i = Len(z)
    BY <1>1, <2>1, <2>2, <2>3, <2>4 DEF Final
  <2>5. CASE i # Len(z)
    <3>1. z[i].do = "store"
      BY <2>1, <2>2, <2>5 DEF Place, Writes
    <3>2. s \in Owners /\ z[i + 1].do = "free" /\ z[i + 1].obj = s
      BY <2>1, <2>2, <2>5, <3>1 DEF Place
    <3>3. i + 1 \in 1..Len(z)
      BY <1>1, <2>5
    <3> QED BY <1>1, <2>2, <2>3, <3>2, <3>3 DEF Has
  <2> QED BY <2>4, <2>5
<1>7. z # <<>> => Puts(z, Final(z).slot)
  <2> SUFFICES ASSUME z # <<>> PROVE Puts(z, Final(z).slot)
    OBVIOUS
  <2>1. Len(z) \in 1..Len(z)
    BY <1>1
  <2> QED BY <1>3, <2>1 DEF Puts, Final
<1>8. ASSUME NEW o PROVE Has(z, "increment", o) <=> z # <<>> /\ z[1].do = "increment" /\ z[1].obj = o
  <2>1. ASSUME Has(z, "increment", o) PROVE z # <<>> /\ z[1].do = "increment" /\ z[1].obj = o
    <3>1. PICK i \in 1..Len(z) : z[i].do = "increment" /\ z[i].obj = o
      BY <2>1 DEF Has
    <3>2. i = 1 /\ Len(z) # 0
      BY <1>1, <1>2, <3>1 DEF Place
    <3> QED BY <1>1, <3>1, <3>2
  <2>2. ASSUME z # <<>>, z[1].do = "increment", z[1].obj = o PROVE Has(z, "increment", o)
    <3>1. 1 \in 1..Len(z)
      BY <1>1, <2>2
    <3> QED BY <2>2, <3>1 DEF Has
  <2> QED BY <2>1, <2>2
<1> QED BY <1>3, <1>4, <1>5, <1>6, <1>7, <1>8

\* Nobody is forgotten where nothing is released, and nobody after the first release.
LEMMA ForgetsNothing ==
    ASSUME NEW z, Stack(z), (\A i \in 1..Len(z) : z[i].do # "decrement") \/ z[1].do = "decrement"
    PROVE  \A o, n : ~Forgets(z, o, n)
<1> SUFFICES ASSUME NEW i \in 1..Len(z), z[i].do = "untrack" PROVE FALSE
  BY DEF Forgets
<1>1. /\ Len(z) \in Nat /\ (\A j \in 1..Len(z) : Place(z, j))
      /\ Len(z) # 0 => Writes(z[Len(z)])
  BY EmptySeq, LenProperties DEF Stack
<1>2. i # Len(z) /\ z[i + 1].do = "decrement"
  BY <1>1 DEF Place, Writes
<1>3. i + 1 \in 1..Len(z) /\ 1 \in 1..i + 1 - 1
  BY <1>1, <1>2
<1> QED BY <1>1, <1>2, <1>3 DEF Place

\* A delete writes to a member once.
LEMMA StoreOnce ==
    ASSUME NEW z, Stack(z), z # <<>>, Head(z).do = "store", Tail(z) # <<>>, Puts(Tail(z), Head(z).slot)
    PROVE  Head(z).slot = Final(z).slot
<1> DEFINE e == Head(z)
           y == Tail(z)
<1>1. Stack(y) /\ Fits(e, y) /\ Final(y) = Final(z)
  BY StackPop
<1>2. y[1].do = "free" /\ y[1].obj = e.slot
  BY <1>1 DEF Fits
<1>3. y \in Seq(Steps) /\ Len(y) \in Nat \ {0} /\ \A i \in 1..Len(y) : Place(y, i)
  BY <1>1, EmptySeq, LenProperties DEF Stack
<1> HIDE DEF e, y
<1>4. PICK i \in 1..Len(y) : Writes(y[i]) /\ y[i].slot = e.slot
  BY DEF Puts, e, y
<1>5. CASE i = Len(y)
  BY <1>1, <1>4, <1>5 DEF Final, e, y
<1>6. CASE i # Len(y)
  <2>1. y[i + 1].do = "free" /\ y[i + 1].obj = e.slot
    BY <1>3, <1>4, <1>6 DEF Place, Writes
  <2>2. 1 \in 1..Len(y) /\ i + 1 \in 1..Len(y) /\ i + 1 # 1
    BY <1>3, <1>6
  <2> QED BY <1>2, <1>3, <2>1, <2>2 DEF Place
<1> QED BY <1>5, <1>6

-------------------------------------------------------------------------------
\* The invariant.

\* The variables that somebody's steps will still write to.
Written == {s \in Slots : \E t \in Threads : Puts(todo[t], s)}

\* The references to o that its count is made of: variables that hold it and are not about to
\* be written to, variables' references that are about to be released, and those that have
\* been retained for a variable.
Holding(o) == {s \in Slots : s \notin Written /\ rc[s].ptr = o}
Dropping(o) == {t \in Threads : Has(todo[t], "decrement", o)}
Storing(o) == {t \in Threads : todo[t] # <<>> /\ Final(todo[t]).do = "store" /\ Final(todo[t]).ptr = o}
Giving(o) == {t \in Storing(o) : todo[t][1].do # "increment"}

CountsSound ==
    \A o \in Objects :
        count[o] = Cardinality(Holding(o)) + Cardinality(Dropping(o)) + Cardinality(Giving(o))

Stacks == todo \in [Threads -> Seq(Steps)] /\ \A t \in Threads : Stack(todo[t])

\* The object whose member s is stays while thread t is at work: a local of t's that is not
\* going to change refers to it.
Keeper(t, s) == \E h \in uses[t] : h \in Locals /\ rc[h].ptr = s /\ h # Final(todo[t]).slot
Kept(t, s) == s \in Locals \/ Keeper(t, s)

UsesOf(t) ==
    /\ todo[t] = <<>> => uses[t] = {}
    /\ todo[t] # <<>> => LET e == Final(todo[t]) IN
        /\ e.slot \in uses[t] /\ Kept(t, e.slot)
        /\ e.do = "take" => e.src \in uses[t] /\ Kept(t, e.src)

UsesSound ==
    /\ \A t \in Threads : UsesOf(t)
    /\ \A t, u \in Threads : \A s \in Slots : s \in uses[t] /\ s \in uses[u] => t = u

\* What is about to be retained has another reference until then.
RetainOf(t) ==
    todo[t] # <<>> /\ todo[t][1].do = "increment" =>
        LET o == todo[t][1].obj IN
            \/ Has(todo[t], "decrement", o)
            \/ \E r \in uses[t] : /\ rc[r].ptr = o /\ r # Final(todo[t]).slot
                                  /\ Kept(t, r) \/ Has(todo[t], "decrement", r)

\* Objects that nobody refers to are about to be freed, by one thread.
FreesSound ==
    /\ \A o \in Objects : o \in live /\ count[o] = 0 <=> \E t \in Threads : Has(todo[t], "free", o)
    /\ \A t, u \in Threads : \A o \in Objects : Has(todo[t], "free", o) /\ Has(todo[u], "free", o) => t = u
    /\ \A o \in Objects : o \notin live => count[o] = 0

\* The numbers that the tracker has for o, and where each is kept until it is handed back: in a
\* variable, in a release that is to come, or in the local id of a copy.
HoldsId(x, o, n) == x \in Holding(o) /\ rc[x].id = n
DropsId(x, o, n) == x \in Threads /\ Forgets(todo[x], o, n)
GivesId(x, o, n) == x \in Giving(o) /\ todo[x][1].do # "track" /\ id[x] = n
Keeps(k, x, o, n) ==
    (k = "holds" /\ HoldsId(x, o, n)) \/ (k = "drops" /\ DropsId(x, o, n)) \/ (k = "gives" /\ GivesId(x, o, n))

\* Each number is kept in one place; an object that is not tracked has none.
NumbersOf(o) ==
    /\ \A n : n \in tracked[o] <=> n # 0 /\ \E k, x : Keeps(k, x, o, n)
    /\ \A n, k, x, l, y : n # 0 /\ Keeps(k, x, o, n) /\ Keeps(l, y, o, n) => k = l /\ x = y
    /\ o \notin Tracked => tracked[o] = {}

\* A copy has no number before it asks for one.
IdOf(t) == id[t] # 0 => todo[t] # <<>> /\ todo[t][1].do \notin {"increment", "track"}

NumbersSound == (~swapped => \A o \in Objects : NumbersOf(o)) /\ \A t \in Threads : IdOf(t)

IInv ==
    /\ RefAssumption /\ TypeOK /\ Stacks /\ UsesSound /\ FreesSound /\ CountsSound
    /\ NumbersSound /\ \A t \in Threads : RetainOf(t)

\* s does not belong to an object that is being deleted.
Guarded(s) == s \in Locals \/ (s \in Objects /\ count[s] # 0)

LEMMA Sizes ==
    ASSUME IInv, NEW o \in Objects
    PROVE  /\ IsFiniteSet(Holding(o)) /\ IsFiniteSet(Dropping(o)) /\ IsFiniteSet(Giving(o))
           /\ Cardinality(Holding(o)) \in Nat /\ Cardinality(Dropping(o)) \in Nat
           /\ Cardinality(Giving(o)) \in Nat
<1>1. IsFiniteSet(Threads) /\ IsFiniteSet(Slots)
  <2>1. IsFiniteSet(Owners)
    BY FS_Subset DEF IInv, RefAssumption
  <2> QED BY <2>1, FS_Union DEF IInv, RefAssumption, Slots
<1>2. Holding(o) \subseteq Slots /\ Dropping(o) \subseteq Threads /\ Giving(o) \subseteq Threads
  BY DEF Holding, Dropping, Giving, Storing
<1> QED BY <1>1, <1>2, FS_Subset, FS_CardinalityType

\* What has a reference is there, and nobody is about to free it.
LEMMA ReferredAlive ==
    ASSUME IInv, NEW o \in Objects,
           (\E s : s \in Holding(o)) \/ (\E t : t \in Dropping(o)) \/ (\E t : t \in Giving(o))
    PROVE  count[o] \in Nat \ {0} /\ o \in live /\ \A t \in Threads : ~Has(todo[t], "free", o)
<1>1. Holding(o) # {} \/ Dropping(o) # {} \/ Giving(o) # {}
  OBVIOUS
<1>2. Cardinality(Holding(o)) # 0 \/ Cardinality(Dropping(o)) # 0 \/ Cardinality(Giving(o)) # 0
  BY <1>1, Sizes, FS_EmptySet
<1>3. count[o] = Cardinality(Holding(o)) + Cardinality(Dropping(o)) + Cardinality(Giving(o))
  BY DEF IInv, CountsSound
<1>4. count[o] \in Nat \ {0}
  BY <1>2, <1>3, Sizes
<1> QED BY <1>4 DEF IInv, FreesSound

\* Who writes to a variable: the delete of its object, or the operation it is for.
LEMMA WrittenBy ==
    ASSUME IInv, NEW s, NEW t \in Threads, Puts(todo[t], s), Guarded(s)
    PROVE  todo[t] # <<>> /\ s = Final(todo[t]).slot /\ s \in uses[t]
<1>1. /\ todo[t] # <<>> /\ s \in Slots
      /\ s = Final(todo[t]).slot \/ (s \in Owners /\ Has(todo[t], "free", s))
  BY StackHas DEF IInv, Stacks
<1>2. ASSUME s \in Owners, Has(todo[t], "free", s) PROVE FALSE
  BY <1>2 DEF IInv, RefAssumption, FreesSound, Guarded
<1> QED BY <1>1, <1>2 DEF IInv, UsesSound, UsesOf

LEMMA KeeperHolds ==
    ASSUME IInv, NEW t \in Threads, todo[t] # <<>>, NEW s, Keeper(t, s)
    PROVE  \E h : h \in Holding(s)
<1>1. PICK h \in uses[t] : h \in Locals /\ rc[h].ptr = s /\ h # Final(todo[t]).slot
  BY DEF Keeper
<1>2. h \in Slots /\ Guarded(h)
  BY <1>1 DEF Slots, Guarded
<1>3. ASSUME NEW u \in Threads, Puts(todo[u], h) PROVE FALSE
  <2>1. h = Final(todo[u]).slot /\ h \in uses[u]
    BY <1>2, <1>3, WrittenBy
  <2> QED BY <1>1, <1>2, <2>1 DEF IInv, UsesSound
<1> QED BY <1>1, <1>2, <1>3 DEF Holding, Written

LEMMA KeeperAlive ==
    ASSUME IInv, NEW t \in Threads, todo[t] # <<>>, NEW s, Kept(t, s), s \in Slots
    PROVE  Guarded(s)
<1>1. CASE s \in Locals
  BY <1>1 DEF Guarded
<1>2. CASE s \notin Locals
  <2>1. s \in Objects
    BY <1>2 DEF IInv, RefAssumption, Slots
  <2>2. \E h : h \in Holding(s)
    BY <1>2, KeeperHolds DEF Kept
  <2> QED BY <2>1, <2>2, ReferredAlive DEF Guarded
<1> QED BY <1>1, <1>2

\* The variables an operation is about.
LEMMA FinalGuarded ==
    ASSUME IInv, NEW t \in Threads, todo[t] # <<>>
    PROVE  LET e == Final(todo[t]) IN
           /\ e.slot \in Slots /\ e.slot \in uses[t] /\ Guarded(e.slot)
           /\ \A u \in Threads : Puts(todo[u], e.slot) <=> u = t
           /\ e.do = "take" => e.src \in Slots /\ e.src \in uses[t] /\ Guarded(e.src)
           /\ e.do = "take" /\ e.src # e.slot => e.src \notin Written
<1> DEFINE e == Final(todo[t])
<1>1. e \in Steps /\ Writes(e) /\ Puts(todo[t], e.slot)
  BY StackHas DEF IInv, Stacks
<1>2. e.slot \in Slots /\ (e.do = "take" => e.src \in Slots)
  BY <1>1, StepIs DEF Writes
<1>3. e.slot \in uses[t] /\ Kept(t, e.slot) /\ (e.do = "take" => e.src \in uses[t] /\ Kept(t, e.src))
  BY DEF IInv, UsesSound, UsesOf
<1> HIDE DEF e
<1>4. Guarded(e.slot) /\ (e.do = "take" => Guarded(e.src))
  BY <1>2, <1>3, KeeperAlive
<1>5. ASSUME NEW u \in Threads, Puts(todo[u], e.slot) PROVE u = t
  <2>1. e.slot \in uses[u]
    BY <1>4, <1>5, WrittenBy
  <2> QED BY <1>2, <1>3, <2>1 DEF IInv, UsesSound
<1>6. ASSUME e.do = "take", e.src # e.slot, NEW u \in Threads, Puts(todo[u], e.src) PROVE FALSE
  <2>1. e.src = Final(todo[u]).slot /\ e.src \in uses[u]
    BY <1>4, <1>6, WrittenBy
  <2>2. u = t
    BY <1>2, <1>3, <1>6, <2>1 DEF IInv, UsesSound
  <2> QED BY <1>6, <2>1, <2>2 DEF e
<1> QED BY <1>1, <1>2, <1>3, <1>4, <1>5, <1>6 DEF e, Written

\* A variable that nobody uses, and that a local or nobody is in the way of.
LEMMA FreeUnwritten ==
    ASSUME IInv, NEW h, NEW s, Reaches(h, s), s \in Slots
    PROVE  s \notin Written /\ h \notin Written /\ Guarded(s) /\ h \in Slots
<1>1. h \in Slots /\ Guarded(h)
  BY DEF Reaches, Slots, Guarded
<1>2. ASSUME NEW u \in Threads, Puts(todo[u], h) PROVE FALSE
  BY <1>1, <1>2, WrittenBy DEF Reaches, Free
<1>3. h \notin Written
  BY <1>2 DEF Written
<1>4. Guarded(s)
  <2>1. CASE s = h
    BY <1>1, <2>1
  <2>2. CASE s # h /\ s \in Locals
    BY <2>2 DEF Guarded
  <2>3. CASE s # h /\ s \notin Locals
    <3>1. s \in Objects /\ rc[h].ptr = s
      BY <2>3 DEF Reaches, IInv, RefAssumption, Slots
    <3>2. h \in Holding(s)
      BY <1>1, <1>3, <3>1 DEF Holding
    <3> QED BY <3>1, <3>2, ReferredAlive DEF Guarded
  <2> QED BY <2>1, <2>2, <2>3
<1>5. ASSUME NEW u \in Threads, Puts(todo[u], s) PROVE FALSE
  BY <1>4, <1>5, WrittenBy DEF Reaches, Free
<1> QED BY <1>1, <1>3, <1>4, <1>5 DEF Written

\* What is about to be retained is there.
LEMMA RetainAlive ==
    ASSUME IInv, NEW t \in Threads, todo[t] # <<>>, todo[t][1].do = "increment"
    PROVE  todo[t][1].obj \in Objects /\ count[todo[t][1].obj] \in Nat \ {0}
<1> DEFINE o == todo[t][1].obj
<1>1. Has(todo[t], "increment", o) /\ o \in Objects
  <2>1. Stack(todo[t])
    BY DEF IInv, Stacks
  <2>2. Has(todo[t], "increment", o)
    BY <2>1, StackHas
  <2> HIDE DEF o
  <2> QED BY <2>1, <2>2, StackHas
<1>2. \/ Has(todo[t], "decrement", o)
      \/ \E r \in uses[t] : /\ rc[r].ptr = o /\ r # Final(todo[t]).slot
                            /\ Kept(t, r) \/ Has(todo[t], "decrement", r)
  BY DEF IInv, RetainOf
<1> HIDE DEF o
<1>3. CASE Has(todo[t], "decrement", o)
  BY <1>1, <1>3, ReferredAlive DEF Dropping, o
<1>4. ASSUME NEW r \in uses[t], rc[r].ptr = o, r # Final(todo[t]).slot,
             Kept(t, r) \/ Has(todo[t], "decrement", r)
      PROVE  count[o] \in Nat \ {0}
  <2>1. r \in Slots
    BY DEF IInv, TypeOK
  <2>2. Guarded(r)
    <3>1. CASE Kept(t, r)
      BY <2>1, <3>1, KeeperAlive
    <3>2. CASE Has(todo[t], "decrement", r)
      <4>1. r \in Objects
        BY <3>2, StackHas DEF IInv, Stacks
      <4> QED BY <3>2, <4>1, ReferredAlive DEF Dropping, Guarded
    <3> QED BY <1>4, <3>1, <3>2
  <2>3. ASSUME NEW u \in Threads, Puts(todo[u], r) PROVE FALSE
    <3>1. r = Final(todo[u]).slot /\ r \in uses[u]
      BY <2>2, <2>3, WrittenBy
    <3> QED BY <1>4, <2>1, <3>1 DEF IInv, UsesSound
  <2>4. r \in Holding(o)
    BY <1>4, <2>1, <2>3 DEF Holding, Written
  <2> QED BY <1>1, <2>4, ReferredAlive DEF o
<1> QED BY <1>1, <1>2, <1>3, <1>4 DEF o

LEMMA RetainGuarded ==
    ASSUME IInv, NEW t \in Threads, todo[t] # <<>>, NEW r \in uses[t],
           Kept(t, r) \/ Has(todo[t], "decrement", r)
    PROVE  Guarded(r)
<1>1. CASE Kept(t, r)
  <2>1. r \in Slots
    BY DEF IInv, TypeOK
  <2> QED BY <1>1, <2>1, KeeperAlive
<1>2. CASE Has(todo[t], "decrement", r)
  <2>1. r \in Objects
    BY <1>2, StackHas DEF IInv, Stacks
  <2> QED BY <1>2, <2>1, ReferredAlive DEF Dropping, Guarded
<1> QED BY <1>1, <1>2

-------------------------------------------------------------------------------
\* What a step leaves alone.

LEMMA StacksNext ==
    ASSUME todo' \in [Threads -> Seq(Steps)], \A t \in Threads : Stack(todo'[t])
    PROVE  Stacks'
BY DEF Stacks, Stack, Place, Writes

\* A thread that does nothing, and whose variables nobody touches.
LEMMA OthersKeep ==
    ASSUME IInv, NEW u \in Threads, todo'[u] = todo[u], uses'[u] = uses[u],
           \A r \in uses[u] : Guarded(r) => rc'[r].ptr = rc[r].ptr
    PROVE  UsesOf(u)' /\ RetainOf(u)'
<1>1. ASSUME NEW s, Keeper(u, s) PROVE Keeper(u, s)'
  <2>1. PICK h \in uses[u] : h \in Locals /\ rc[h].ptr = s /\ h # Final(todo[u]).slot
    BY <1>1 DEF Keeper
  <2>2. rc'[h].ptr = s
    BY <2>1 DEF Guarded
  <2>3. h \in uses'[u] /\ h # Final(todo'[u]).slot
    BY <2>1
  <2> QED BY <2>1, <2>2, <2>3 DEF Keeper
<1>2. \A s : Kept(u, s) => Kept(u, s)'
  BY <1>1 DEF Kept
<1>3. UsesOf(u)'
  BY <1>2 DEF IInv, UsesSound, UsesOf
<1>4. ASSUME todo[u] # <<>>, todo[u][1].do = "increment", NEW o,
             NEW r \in uses[u], rc[r].ptr = o, r # Final(todo[u]).slot,
             Kept(u, r) \/ Has(todo[u], "decrement", r)
      PROVE  rc'[r].ptr = o /\ (Kept(u, r)' \/ Has(todo[u], "decrement", r))
  BY <1>2, <1>4, RetainGuarded
<1>5. RetainOf(u)'
  BY <1>4 DEF IInv, RetainOf
<1> QED BY <1>3, <1>5

\* A thread that goes on.
LEMMA ThreadKeeps ==
    ASSUME IInv, NEW t \in Threads, todo[t] # <<>>, NEW y, Stack(y), todo' = [todo EXCEPT ![t] = y],
           uses' = IF y = <<>> THEN [uses EXCEPT ![t] = {}] ELSE uses,
           y # <<>> => y[1].do # "increment" /\ Final(y) = Final(todo[t]),
           \A u \in Threads : \A r \in uses'[u] : Guarded(r) => rc'[r].ptr = rc[r].ptr
    PROVE  Stacks' /\ UsesSound' /\ \A u \in Threads : RetainOf(u)'
<1>1. /\ todo \in [Threads -> Seq(Steps)] /\ uses \in [Threads -> SUBSET Slots] /\ y \in Seq(Steps)
      /\ \A u \in Threads : Stack(todo[u])
  BY DEF IInv, Stacks, TypeOK, Stack
<1>2. todo'[t] = y /\ todo' \in [Threads -> Seq(Steps)] /\ \A u \in Threads : u # t => todo'[u] = todo[u]
  BY <1>1
<1>3. Stacks'
  <2>1. \A u \in Threads : Stack(todo'[u])
    BY <1>1, <1>2
  <2> QED BY <1>2, <2>1, StacksNext
<1>4. /\ \A u \in Threads : u # t => uses'[u] = uses[u]
      /\ uses'[t] = IF y = <<>> THEN {} ELSE uses[t]
  BY <1>1
<1>5. ASSUME NEW u \in Threads, u # t PROVE UsesOf(u)' /\ RetainOf(u)'
  BY <1>2, <1>4, <1>5, OthersKeep
<1>6. RetainOf(t)'
  BY <1>2 DEF RetainOf
<1>7. UsesOf(t)'
  <2>1. CASE y = <<>>
    BY <1>2, <1>4, <2>1 DEF UsesOf
  <2>2. CASE y # <<>>
    <3>1. \A s : Keeper(t, s) => Keeper(t, s)'
      <4>1. SUFFICES ASSUME NEW s, NEW h \in uses[t], h \in Locals, rc[h].ptr = s, h # Final(todo[t]).slot
                     PROVE  Keeper(t, s)'
        BY DEF Keeper
      <4>2. h \in uses'[t] /\ rc'[h].ptr = s
        BY <1>4, <2>2, <4>1 DEF Guarded
      <4>3. h # Final(todo'[t]).slot
        BY <1>2, <2>2, <4>1
      <4> QED BY <4>1, <4>2, <4>3 DEF Keeper
    <3>2. \A s : Kept(t, s) => Kept(t, s)'
      BY <3>1 DEF Kept
    <3>3. Final(todo'[t]) = Final(todo[t]) /\ todo'[t] # <<>> /\ uses'[t] = uses[t]
      BY <1>2, <1>4, <2>2
    <3> QED BY <3>2, <3>3 DEF UsesOf, IInv, UsesSound
  <2> QED BY <2>1, <2>2
<1>8. \A u, v \in Threads : \A s \in Slots : s \in uses'[u] /\ s \in uses'[v] => u = v
  BY <1>4 DEF IInv, UsesSound
<1> QED BY <1>3, <1>5, <1>6, <1>7, <1>8 DEF UsesSound

LEMMA PopIs ==
    ASSUME IInv, NEW t \in Threads, todo[t] # <<>>
    PROVE  LET e == Head(todo[t])
               y == Tail(todo[t])
           IN  /\ e = todo[t][1] /\ e \in Steps /\ Stack(y)
               /\ \A what, o : Has(todo[t], what, o) <=> (e.do = what /\ e.obj = o) \/ Has(y, what, o)
               /\ \A s : Puts(todo[t], s) <=> (Writes(e) /\ e.slot = s) \/ Puts(y, s)
               /\ \A o, n : Forgets(todo[t], o, n) <=>
                    (e.do = "untrack" /\ e.obj = o /\ e.id = n) \/ Forgets(y, o, n)
               /\ y # <<>> => Fits(e, y) /\ Final(y) = Final(todo[t]) /\ y[1].do # "increment"
               /\ y = <<>> => Writes(e) /\ Final(todo[t]) = e
<1> DEFINE e == Head(todo[t])
           y == Tail(todo[t])
<1>1. /\ e \in Steps /\ Stack(y) /\ todo[t] = <<e>> \o y /\ e = todo[t][1]
      /\ y # <<>> => Fits(e, y) /\ Final(y) = Final(todo[t])
      /\ y = <<>> => Writes(e) /\ Final(todo[t]) = e
  BY StackPop DEF IInv, Stacks
<1>2. y \in Seq(Steps)
  BY <1>1 DEF Stack
<1> HIDE DEF e, y
<1>3. \A what, o : Has(todo[t], what, o) <=> (e.do = what /\ e.obj = o) \/ Has(y, what, o)
  BY <1>1, <1>2, HasCons
<1>4. \A s : Puts(todo[t], s) <=> (Writes(e) /\ e.slot = s) \/ Puts(y, s)
  BY <1>1, <1>2, PutsCons
<1>5. \A o, n : Forgets(todo[t], o, n) <=>
            (e.do = "untrack" /\ e.obj = o /\ e.id = n) \/ Forgets(y, o, n)
  BY <1>1, <1>2, ForgetsCons
<1>6. y # <<>> => y[1].do # "increment"
  BY <1>1 DEF Fits
<1> QED BY <1>1, <1>3, <1>4, <1>6, <1>5 DEF e, y

\* The sets that counts are made of, when thread t's stack becomes y.
LEMMA StackChanged ==
    ASSUME IInv, NEW t \in Threads, NEW y, todo' = [todo EXCEPT ![t] = y]
    PROVE  /\ \A u \in Threads : \A what, o : Has(todo'[u], what, o) <=>
                IF u = t THEN Has(y, what, o) ELSE Has(todo[u], what, o)
           /\ \A s \in Slots : s \in Written' <=>
                Puts(y, s) \/ \E u \in Threads : u # t /\ Puts(todo[u], s)
           /\ \A u, o : u \in Dropping(o)' <=> u \in Threads /\
                IF u = t THEN Has(y, "decrement", o) ELSE u \in Dropping(o)
           /\ \A u, o : u \in Giving(o)' <=> u \in Threads /\
                IF u = t THEN y # <<>> /\ Final(y).do = "store" /\ Final(y).ptr = o /\ y[1].do # "increment"
                ELSE u \in Giving(o)
<1>1. todo'[t] = y /\ \A u \in Threads : u # t => todo'[u] = todo[u]
  BY DEF IInv, Stacks
<1>2. \A u \in Threads : \A what, o : Has(todo'[u], what, o) <=>
                IF u = t THEN Has(y, what, o) ELSE Has(todo[u], what, o)
  BY <1>1
<1>3. ASSUME NEW s \in Slots
      PROVE  s \in Written' <=> Puts(y, s) \/ \E u \in Threads : u # t /\ Puts(todo[u], s)
  <2>1. s \in Written' <=> \E u \in Threads : Puts(todo'[u], s)
    BY DEF Written, Puts, Writes
  <2> QED BY <1>1, <2>1
<1>4. \A u, o : u \in Dropping(o)' <=> u \in Threads /\
                IF u = t THEN Has(y, "decrement", o) ELSE u \in Dropping(o)
  <2>1. \A u, o : u \in Dropping(o)' <=> u \in Threads /\ Has(todo'[u], "decrement", o)
    BY DEF Dropping, Has
  <2> QED BY <1>2, <2>1 DEF Dropping
<1>5. ASSUME NEW u, NEW o
      PROVE  u \in Giving(o)' <=> u \in Threads /\
                IF u = t THEN y # <<>> /\ Final(y).do = "store" /\ Final(y).ptr = o /\ y[1].do # "increment"
                ELSE u \in Giving(o)
  <2>1. u \in Giving(o)' <=> /\ u \in Threads /\ todo'[u] # <<>> /\ Final(todo'[u]).do = "store"
                             /\ Final(todo'[u]).ptr = o /\ todo'[u][1].do # "increment"
    BY DEF Giving, Storing, Final
  <2> QED BY <1>1, <2>1 DEF Giving, Storing
<1> QED BY <1>2, <1>3, <1>4, <1>5

LEMMA GivingIs ==
    \A u, o : u \in Giving(o) <=> /\ u \in Threads /\ todo[u] # <<>> /\ Final(todo[u]).do = "store"
                                 /\ Final(todo[u]).ptr = o /\ todo[u][1].do # "increment"
BY DEF Giving, Storing

LEMMA DroppingIs == \A u, o : u \in Dropping(o) <=> u \in Threads /\ Has(todo[u], "decrement", o)
BY DEF Dropping

LEMMA FreesIs ==
    ASSUME \A o \in Objects : o \in live' /\ count'[o] = 0 <=> \E t \in Threads : Has(todo'[t], "free", o),
           \A t, u \in Threads : \A o \in Objects :
                Has(todo'[t], "free", o) /\ Has(todo'[u], "free", o) => t = u,
           \A o \in Objects : o \notin live' => count'[o] = 0
    PROVE  FreesSound'
BY DEF FreesSound, Has

\* How a count changes with the sets it is made of.
LEMMA CountKept ==
    ASSUME IInv, NEW o \in Objects, Holding(o)' = Holding(o), Dropping(o)' = Dropping(o),
           Giving(o)' = Giving(o), count'[o] = count[o]
    PROVE  count'[o] = Cardinality(Holding(o)') + Cardinality(Dropping(o)') + Cardinality(Giving(o)')
BY DEF IInv, CountsSound

LEMMA KeepsIs ==
    \A x, o, n :
        /\ HoldsId(x, o, n) <=> x \in Slots /\ x \notin Written /\ rc[x].ptr = o /\ rc[x].id = n
        /\ DropsId(x, o, n) <=> x \in Threads /\ Forgets(todo[x], o, n)
        /\ GivesId(x, o, n) <=>
             /\ x \in Threads /\ todo[x] # <<>> /\ Final(todo[x]).do = "store" /\ Final(todo[x]).ptr = o
             /\ todo[x][1].do \notin {"increment", "track"} /\ id[x] = n
BY DEF HoldsId, DropsId, GivesId, Holding, Giving, Storing

\* Where the numbers are, when thread t's stack becomes y.
LEMMA KeepsNext ==
    ASSUME IInv, NEW t \in Threads, NEW y, todo' = [todo EXCEPT ![t] = y], NEW v, id' = [id EXCEPT ![t] = v]
    PROVE  /\ \A x, o, n : HoldsId(x, o, n)' <=>
                x \in Slots /\ x \notin Written' /\ rc'[x].ptr = o /\ rc'[x].id = n
           /\ \A x, o, n : DropsId(x, o, n)' <=>
                x \in Threads /\ IF x = t THEN Forgets(y, o, n) ELSE DropsId(x, o, n)
           /\ \A x, o, n : GivesId(x, o, n)' <=>
                x \in Threads /\
                IF x = t THEN /\ y # <<>> /\ Final(y).do = "store" /\ Final(y).ptr = o
                              /\ y[1].do \notin {"increment", "track"} /\ v = n
                ELSE GivesId(x, o, n)
<1>1. /\ todo'[t] = y /\ (\A u \in Threads : u # t => todo'[u] = todo[u])
      /\ id'[t] = v /\ (\A u \in Threads : u # t => id'[u] = id[u])
  BY DEF IInv, Stacks, TypeOK
<1>2. \A x, o, n : HoldsId(x, o, n)' <=> x \in Slots /\ x \notin Written' /\ rc'[x].ptr = o /\ rc'[x].id = n
  BY DEF HoldsId, Holding, Slots
<1>3. \A x, o, n : DropsId(x, o, n)' <=>
                x \in Threads /\ IF x = t THEN Forgets(y, o, n) ELSE DropsId(x, o, n)
  <2>1. \A x, o, n : DropsId(x, o, n)' <=> x \in Threads /\ Forgets(todo'[x], o, n)
    BY DEF DropsId, Forgets
  <2> QED BY <1>1, <2>1 DEF DropsId
<1>4. \A x, o, n : GivesId(x, o, n)' <=>
                x \in Threads /\
                IF x = t THEN /\ y # <<>> /\ Final(y).do = "store" /\ Final(y).ptr = o
                              /\ y[1].do \notin {"increment", "track"} /\ v = n
                ELSE GivesId(x, o, n)
  <2>1. \A x, o, n : GivesId(x, o, n)' <=>
             /\ x \in Threads /\ todo'[x] # <<>> /\ Final(todo'[x]).do = "store" /\ Final(todo'[x]).ptr = o
             /\ todo'[x][1].do \notin {"increment", "track"} /\ id'[x] = n
    BY DEF GivesId, Giving, Storing, Final
  <2> QED BY <1>1, <2>1, KeepsIs
<1> QED BY <1>2, <1>3, <1>4

\* Every number stays where it is.
LEMMA NumbersStay ==
    ASSUME IInv, NEW o \in Objects, ~swapped, tracked'[o] = tracked[o],
           \A x, n : n # 0 => /\ HoldsId(x, o, n)' <=> HoldsId(x, o, n)
                              /\ DropsId(x, o, n)' <=> DropsId(x, o, n)
                              /\ GivesId(x, o, n)' <=> GivesId(x, o, n)
    PROVE  NumbersOf(o)'
<1>1. \A k, x, n : n # 0 => (Keeps(k, x, o, n)' <=> Keeps(k, x, o, n))
  BY DEF Keeps
<1>2. NumbersOf(o)
  BY DEF IInv, NumbersSound
<1> QED BY <1>1, <1>2 DEF NumbersOf

\* One number goes from a place to another.
Moved(o, k, x, l, y, m) ==
    /\ Keeps(k, x, o, m) /\ \A n : Keeps(k, x, o, n) => n = m
    /\ \A j, z, n : Keeps(j, z, o, n)' <=>
         (Keeps(j, z, o, n) /\ ~(j = k /\ z = x)) \/ (j = l /\ z = y /\ n = m)

LEMMA NumbersMove ==
    ASSUME IInv, NEW o \in Objects, ~swapped, tracked'[o] = tracked[o],
           NEW k, NEW x, NEW l, NEW y, NEW m, Moved(o, k, x, l, y, m)
    PROVE  NumbersOf(o)'
<1>1. NumbersOf(o)
  BY DEF IInv, NumbersSound
<1>2. \A n : n \in tracked'[o] <=> n # 0 /\ \E j, z : Keeps(j, z, o, n)'
  BY <1>1 DEF NumbersOf, Moved
<1>3. \A n, j, z, p, q : n # 0 /\ Keeps(j, z, o, n)' /\ Keeps(p, q, o, n)' => j = p /\ z = q
  BY <1>1 DEF NumbersOf, Moved
<1> QED BY <1>1, <1>2, <1>3 DEF NumbersOf

LEMMA NumbersNext ==
    ASSUME ~swapped' => \A o \in Objects : NumbersOf(o)', \A t \in Threads : IdOf(t)'
    PROVE  NumbersSound'
BY DEF NumbersSound

\* The local id of a thread that goes on.
LEMMA IdNext ==
    ASSUME IInv, NEW t \in Threads, NEW y, NEW given, Continue(t, y, given),
           y # <<>> => y[1].do # "increment" /\ (y[1].do = "track" => given = 0)
    PROVE  /\ \A u \in Threads : IdOf(u)'
           /\ id' = [id EXCEPT ![t] = IF y = <<>> THEN 0 ELSE given] /\ swapped' = swapped
<1>1. /\ todo' = [todo EXCEPT ![t] = y] /\ id' = [id EXCEPT ![t] = IF y = <<>> THEN 0 ELSE given]
      /\ swapped' = swapped
  BY DEF Continue
<1>2. /\ todo'[t] = y /\ (\A u \in Threads : u # t => todo'[u] = todo[u])
      /\ id'[t] = (IF y = <<>> THEN 0 ELSE given) /\ (\A u \in Threads : u # t => id'[u] = id[u])
  BY <1>1 DEF IInv, Stacks, TypeOK
<1>3. \A u \in Threads : IdOf(u)'
  BY <1>2 DEF IdOf, IInv, NumbersSound
<1> QED BY <1>1, <1>3

LEMMA AllStay ==
    ASSUME IInv, tracked' = tracked, swapped' = swapped, \A u \in Threads : IdOf(u)',
           \A o \in Objects : \A x, n : n # 0 => /\ HoldsId(x, o, n)' <=> HoldsId(x, o, n)
                                                 /\ DropsId(x, o, n)' <=> DropsId(x, o, n)
                                                 /\ GivesId(x, o, n)' <=> GivesId(x, o, n)
    PROVE  NumbersSound'
<1>1. ASSUME ~swapped, NEW o \in Objects PROVE NumbersOf(o)'
  <2>1. /\ tracked'[o] = tracked[o]
        /\ \A x, n : n # 0 => /\ HoldsId(x, o, n)' <=> HoldsId(x, o, n)
                              /\ DropsId(x, o, n)' <=> DropsId(x, o, n)
                              /\ GivesId(x, o, n)' <=> GivesId(x, o, n)
    OBVIOUS
  <2> QED BY <1>1, <2>1, NumbersStay
<1> QED BY <1>1, NumbersNext

\* A step that is not the last, and takes no number from the tracker.
LEMMA PopNumbers ==
    ASSUME IInv, NEW t \in Threads, todo[t] # <<>>, Tail(todo[t]) # <<>>, Head(todo[t]).do # "untrack",
           Continue(t, Tail(todo[t]), id[t])
    PROVE  /\ swapped' = swapped /\ \A u \in Threads : IdOf(u)'
           /\ \A x, o, n : HoldsId(x, o, n)' <=>
                x \in Slots /\ x \notin Written' /\ rc'[x].ptr = o /\ rc'[x].id = n
           /\ \A x, o, n : n # 0 => /\ DropsId(x, o, n)' <=> DropsId(x, o, n)
                                    /\ GivesId(x, o, n)' <=> GivesId(x, o, n)
<1> DEFINE e == Head(todo[t])
           y == Tail(todo[t])
<1>1. /\ e = todo[t][1] /\ y # <<>> /\ Fits(e, y) /\ Final(y) = Final(todo[t]) /\ y[1].do # "increment"
      /\ \A o, n : Forgets(todo[t], o, n) <=>
            (e.do = "untrack" /\ e.obj = o /\ e.id = n) \/ Forgets(y, o, n)
  BY PopIs
<1>2. Continue(t, y, id[t]) /\ e.do # "untrack"
  OBVIOUS
<1>3. todo' = [todo EXCEPT ![t] = y]
  BY <1>2 DEF Continue
<1> HIDE DEF e, y
<1>4. y[1].do = "track" => e.do = "increment"
  BY <1>1 DEF Fits
<1>5. e.do \in {"increment", "track"} => id[t] = 0
  BY <1>1 DEF IInv, NumbersSound, IdOf
<1>6. e.do = "increment" => y[1].do = "track"
  BY <1>1 DEF Fits
<1>7. /\ \A u \in Threads : IdOf(u)'
      /\ id' = [id EXCEPT ![t] = id[t]] /\ swapped' = swapped
  BY <1>1, <1>2, <1>4, <1>5, IdNext
<1>8. /\ \A x, o, n : HoldsId(x, o, n)' <=>
            x \in Slots /\ x \notin Written' /\ rc'[x].ptr = o /\ rc'[x].id = n
      /\ \A x, o, n : DropsId(x, o, n)' <=>
            x \in Threads /\ IF x = t THEN Forgets(y, o, n) ELSE DropsId(x, o, n)
      /\ \A x, o, n : GivesId(x, o, n)' <=>
            x \in Threads /\
            IF x = t THEN /\ y # <<>> /\ Final(y).do = "store" /\ Final(y).ptr = o
                          /\ y[1].do \notin {"increment", "track"} /\ id[t] = n
            ELSE GivesId(x, o, n)
  BY <1>3, <1>7, KeepsNext
<1>9. \A x, o, n : DropsId(x, o, n)' <=> DropsId(x, o, n)
  BY <1>1, <1>2, <1>8, KeepsIs
<1>10. \A x, o, n : n # 0 => (GivesId(x, o, n)' <=> GivesId(x, o, n))
  BY <1>1, <1>4, <1>5, <1>6, <1>8, KeepsIs
<1> QED BY <1>7, <1>8, <1>9, <1>10

LEMMA PopStay ==
    ASSUME IInv, NEW t \in Threads, todo[t] # <<>>, Tail(todo[t]) # <<>>, Head(todo[t]).do # "untrack",
           Continue(t, Tail(todo[t]), id[t]), tracked' = tracked,
           \A s \in Slots : s \notin Written' /\ rc'[s].ptr # NULL => s \notin Written /\ rc'[s] = rc[s],
           \A s \in Slots : s \notin Written /\ rc[s].ptr # NULL => s \notin Written' /\ rc'[s] = rc[s]
    PROVE  NumbersSound'
<1>1. /\ swapped' = swapped /\ \A u \in Threads : IdOf(u)'
      /\ \A x, o, n : HoldsId(x, o, n)' <=>
            x \in Slots /\ x \notin Written' /\ rc'[x].ptr = o /\ rc'[x].id = n
      /\ \A x, o, n : n # 0 => /\ DropsId(x, o, n)' <=> DropsId(x, o, n)
                               /\ GivesId(x, o, n)' <=> GivesId(x, o, n)
  BY PopNumbers
<1>2. \A o \in Objects : o # NULL
  BY DEF IInv, RefAssumption
<1>3. \A o \in Objects : \A x, n : HoldsId(x, o, n)' <=> HoldsId(x, o, n)
  BY <1>1, <1>2, KeepsIs
<1>4. \A o \in Objects : \A x, n : n # 0 => /\ HoldsId(x, o, n)' <=> HoldsId(x, o, n)
                                            /\ DropsId(x, o, n)' <=> DropsId(x, o, n)
                                            /\ GivesId(x, o, n)' <=> GivesId(x, o, n)
  BY <1>1, <1>3
<1> QED BY <1>1, <1>4, AllStay

-------------------------------------------------------------------------------
\* The steps.

LEMMA ContinueIs ==
    ASSUME IInv, NEW t \in Threads, NEW y \in Seq(Steps), NEW given \in Id, Continue(t, y, given)
    PROVE  /\ todo' = [todo EXCEPT ![t] = y]
           /\ uses' = IF y = <<>> THEN [uses EXCEPT ![t] = {}] ELSE uses
           /\ uses' \in [Threads -> SUBSET Slots] /\ id' \in [Threads -> Id] /\ swapped' \in BOOLEAN
           /\ \A u \in Threads : uses'[u] \subseteq uses[u]
<1>1. uses \in [Threads -> SUBSET Slots] /\ id \in [Threads -> Id] /\ swapped \in BOOLEAN /\ 0 \in Id
  BY DEF IInv, TypeOK, RefAssumption, Id
<1> QED BY <1>1 DEF Continue

\* A step that only goes on: nothing is written, retained, released or freed.
LEMMA QuietKeeps ==
    ASSUME IInv, NEW t \in Threads, todo[t] # <<>>, Head(todo[t]).do \in {"track", "untrack"},
           NEW given \in Id, Continue(t, Tail(todo[t]), given), UNCHANGED <<live, count, rc>>,
           tracked' \in [Objects -> SUBSET Id], NumbersSound'
    PROVE  IInv'
<1> DEFINE e == Head(todo[t])
           y == Tail(todo[t])
<1>1. /\ e = todo[t][1] /\ e \in Steps /\ Stack(y) /\ e.do \in {"track", "untrack"}
      /\ \A what, o : Has(todo[t], what, o) <=> (e.do = what /\ e.obj = o) \/ Has(y, what, o)
      /\ \A s : Puts(todo[t], s) <=> (Writes(e) /\ e.slot = s) \/ Puts(y, s)
      /\ y # <<>> => Final(y) = Final(todo[t]) /\ y[1].do # "increment"
      /\ y = <<>> => Writes(e)
  BY PopIs
<1>2. y \in Seq(Steps)
  BY <1>1 DEF Stack
<1>3. /\ todo' = [todo EXCEPT ![t] = y] /\ uses' = IF y = <<>> THEN [uses EXCEPT ![t] = {}] ELSE uses
      /\ uses' \in [Threads -> SUBSET Slots] /\ id' \in [Threads -> Id] /\ swapped' \in BOOLEAN
  BY <1>2, ContinueIs
<1> HIDE DEF e, y
<1>4. y # <<>> /\ ~Writes(e)
  BY <1>1 DEF Writes
<1>5. Stacks' /\ UsesSound' /\ \A u \in Threads : RetainOf(u)'
  BY <1>1, <1>3, ThreadKeeps
<1>6. /\ \A u \in Threads : \A what, o : Has(todo'[u], what, o) <=>
                IF u = t THEN Has(y, what, o) ELSE Has(todo[u], what, o)
      /\ \A s \in Slots : s \in Written' <=> Puts(y, s) \/ \E u \in Threads : u # t /\ Puts(todo[u], s)
      /\ \A u, o : u \in Dropping(o)' <=> u \in Threads /\
                IF u = t THEN Has(y, "decrement", o) ELSE u \in Dropping(o)
      /\ \A u, o : u \in Giving(o)' <=> u \in Threads /\
                IF u = t THEN y # <<>> /\ Final(y).do = "store" /\ Final(y).ptr = o /\ y[1].do # "increment"
                ELSE u \in Giving(o)
  BY <1>3, StackChanged
<1>7. \A s \in Slots : s \in Written' <=> s \in Written
  BY <1>1, <1>4, <1>6 DEF Written
<1>8. \A u \in Threads : \A o : Has(todo'[u], "free", o) <=> Has(todo[u], "free", o)
  BY <1>1, <1>6
<1>9. ASSUME NEW o \in Objects
      PROVE  count'[o] = Cardinality(Holding(o)') + Cardinality(Dropping(o)') + Cardinality(Giving(o)')
  <2>1. Holding(o)' = Holding(o)
    BY <1>7 DEF Holding
  <2>2. Dropping(o)' = Dropping(o)
    BY <1>1, <1>6 DEF Dropping
  <2>3. Giving(o)' = Giving(o)
    <3>1. \A u : u \in Giving(o)' <=> u \in Giving(o)
      BY <1>1, <1>4, <1>6, GivingIs
    <3> QED BY <3>1
  <2> QED BY <2>1, <2>2, <2>3, CountKept
<1>10. CountsSound'
  BY <1>9 DEF CountsSound
<1>11. FreesSound'
  <2>1. live' = live /\ count' = count
    OBVIOUS
  <2> QED BY <1>8, <2>1, FreesIs DEF IInv, FreesSound
<1>12. TypeOK'
  BY <1>3 DEF IInv, TypeOK
<1> QED BY <1>5, <1>10, <1>11, <1>12 DEF IInv, RefAssumption, Slots, Id

LEMMA IncrementKeeps ==
    ASSUME IInv, NEW t \in Threads, Increment(t)
    PROVE  IInv'
<1> DEFINE e == Head(todo[t])
           y == Tail(todo[t])
           a == e.obj
<1>1. /\ todo[t] # <<>> /\ e.do = "increment" /\ count' = [count EXCEPT ![a] = @ + 1]
      /\ Continue(t, y, id[t]) /\ UNCHANGED <<live, tracked, rc>>
  BY DEF Increment, Does, Obj
<1>2. /\ e = todo[t][1] /\ e \in Steps /\ Stack(y)
      /\ \A what, o : Has(todo[t], what, o) <=> (e.do = what /\ e.obj = o) \/ Has(y, what, o)
      /\ \A s : Puts(todo[t], s) <=> (Writes(e) /\ e.slot = s) \/ Puts(y, s)
      /\ y # <<>> => Fits(e, y) /\ Final(y) = Final(todo[t]) /\ y[1].do # "increment"
      /\ y = <<>> => Writes(e)
  BY <1>1, PopIs
<1>3. y \in Seq(Steps) /\ id[t] \in Id
  BY <1>2 DEF Stack, IInv, TypeOK
<1>4. /\ todo' = [todo EXCEPT ![t] = y] /\ uses' = IF y = <<>> THEN [uses EXCEPT ![t] = {}] ELSE uses
      /\ uses' \in [Threads -> SUBSET Slots] /\ id' \in [Threads -> Id] /\ swapped' \in BOOLEAN
  BY <1>1, <1>3, ContinueIs
<1>5. a \in Objects /\ count[a] \in Nat \ {0}
  BY <1>1, <1>2, RetainAlive
<1> HIDE DEF e, y
<1>6. y # <<>> /\ ~Writes(e)
  BY <1>1, <1>2 DEF Writes
<1>7. Final(y).do = "store" /\ Final(y).ptr = a
  <2>1. y[1].do = "track" /\ y[1].obj = a
    BY <1>1, <1>2, <1>6 DEF Fits
  <2>2. Len(y) \in Nat \ {0}
    BY <1>3, <1>6, EmptySeq, LenProperties
  <2>3. Place(y, 1)
    BY <1>2, <2>2 DEF Stack
  <2> QED BY <2>1, <2>3 DEF Place, Final
<1>8. Stacks' /\ UsesSound' /\ \A u \in Threads : RetainOf(u)'
  BY <1>1, <1>2, <1>4, ThreadKeeps
<1>9. /\ \A u \in Threads : \A what, o : Has(todo'[u], what, o) <=>
                IF u = t THEN Has(y, what, o) ELSE Has(todo[u], what, o)
      /\ \A s \in Slots : s \in Written' <=> Puts(y, s) \/ \E u \in Threads : u # t /\ Puts(todo[u], s)
      /\ \A u, o : u \in Dropping(o)' <=> u \in Threads /\
                IF u = t THEN Has(y, "decrement", o) ELSE u \in Dropping(o)
      /\ \A u, o : u \in Giving(o)' <=> u \in Threads /\
                IF u = t THEN y # <<>> /\ Final(y).do = "store" /\ Final(y).ptr = o /\ y[1].do # "increment"
                ELSE u \in Giving(o)
  BY <1>4, StackChanged
<1>10. \A s \in Slots : s \in Written' <=> s \in Written
  BY <1>2, <1>6, <1>9 DEF Written
<1>11. \A u \in Threads : \A o : Has(todo'[u], "free", o) <=> Has(todo[u], "free", o)
  BY <1>1, <1>2, <1>9
<1>12. count \in [Objects -> Nat] /\ count'[a] = count[a] + 1 /\ \A o \in Objects : o # a => count'[o] = count[o]
  BY <1>1, <1>5 DEF IInv, TypeOK
<1>13. ASSUME NEW o \in Objects
      PROVE  count'[o] = Cardinality(Holding(o)') + Cardinality(Dropping(o)') + Cardinality(Giving(o)')
  <2>1. Holding(o)' = Holding(o)
    BY <1>1, <1>10 DEF Holding
  <2>2. Dropping(o)' = Dropping(o)
    BY <1>1, <1>2, <1>9 DEF Dropping
  <2>3. CASE o # a
    <3>1. \A u : u \in Giving(o)' <=> u \in Giving(o)
      BY <1>1, <1>2, <1>7, <1>9, <2>3, GivingIs
    <3>2. Giving(o)' = Giving(o)
      BY <3>1
    <3> QED BY <1>12, <2>1, <2>2, <2>3, <3>2, CountKept
  <2>4. CASE o = a
    <3>1. Giving(o)' = Giving(o) \cup {t} /\ t \notin Giving(o)
      <4>1. \A u : u \in Giving(o)' <=> u \in Giving(o) \/ u = t
        BY <1>2, <1>6, <1>7, <1>9, <2>4, GivingIs
      <4>2. t \notin Giving(o)
        BY <1>1, <1>2, GivingIs
      <4> QED BY <4>1, <4>2
    <3>2. Cardinality(Giving(o)') = Cardinality(Giving(o)) + 1
      BY <3>1, Sizes, FS_AddElement
    <3>3. count[o] = Cardinality(Holding(o)) + Cardinality(Dropping(o)) + Cardinality(Giving(o))
      BY DEF IInv, CountsSound
    <3> QED BY <1>12, <2>1, <2>2, <2>4, <3>2, <3>3, Sizes
  <2> QED BY <2>3, <2>4
<1>14. CountsSound'
  BY <1>13 DEF CountsSound
<1>15. FreesSound'
  <2>1. \A o \in Objects : (count'[o] = 0 <=> count[o] = 0) /\ (o \notin live => count'[o] = 0)
    BY <1>5, <1>12 DEF IInv, FreesSound
  <2>2. live' = live
    BY <1>1
  <2> QED BY <1>11, <2>1, <2>2, FreesIs DEF IInv, FreesSound
<1>16. TypeOK'
  <2>1. count' \in [Objects -> Nat]
    BY <1>1, <1>5, <1>12
  <2> QED BY <1>1, <1>4, <2>1 DEF IInv, TypeOK
<1>17. NumbersSound'
  <2>1. e.do # "untrack" /\ tracked' = tracked /\ rc' = rc
    BY <1>1
  <2> QED BY <1>1, <1>6, <1>10, <2>1, PopStay DEF e, y
<1> QED BY <1>8, <1>14, <1>15, <1>16, <1>17 DEF IInv, RefAssumption, Slots, Id

\* What a thread has left to do after it has asked the tracker.
LEMMA QuietIs ==
    ASSUME IInv, NEW t \in Threads, todo[t] # <<>>, Head(todo[t]).do \in {"track", "untrack"},
           NEW given, Continue(t, Tail(todo[t]), given), rc' = rc
    PROVE  LET e == Head(todo[t])
           IN  /\ e = todo[t][1] /\ e \in Steps /\ e.obj \in Objects /\ Tail(todo[t]) # <<>>
               /\ e.do = "track" => Final(todo[t]).do = "store" /\ Final(todo[t]).ptr = e.obj /\ id[t] = 0
               /\ e.do = "track" => \A o, n : Forgets(Tail(todo[t]), o, n) <=> Forgets(todo[t], o, n)
               /\ e.do = "untrack" => \A o, n : Forgets(todo[t], o, n) <=> e.obj = o /\ e.id = n
               /\ e.do = "untrack" => \A o, n : ~Forgets(Tail(todo[t]), o, n)
               /\ swapped' = swapped /\ \A u \in Threads : IdOf(u)'
               /\ \A s \in Slots : s \in Written' <=> s \in Written
               /\ \A x, o, n : HoldsId(x, o, n)' <=> HoldsId(x, o, n)
               /\ \A x, o, n : DropsId(x, o, n)' <=>
                    x \in Threads /\ IF x = t THEN Forgets(Tail(todo[t]), o, n) ELSE DropsId(x, o, n)
               /\ \A x, o, n : GivesId(x, o, n)' <=>
                    x \in Threads /\
                    IF x = t THEN Final(todo[t]).do = "store" /\ Final(todo[t]).ptr = o /\ given = n
                    ELSE GivesId(x, o, n)
<1> DEFINE e == Head(todo[t])
           y == Tail(todo[t])
<1>1. /\ e = todo[t][1] /\ e \in Steps /\ Stack(y) /\ e.do \in {"track", "untrack"}
      /\ \A s : Puts(todo[t], s) <=> (Writes(e) /\ e.slot = s) \/ Puts(y, s)
      /\ \A o, n : Forgets(todo[t], o, n) <=>
            (e.do = "untrack" /\ e.obj = o /\ e.id = n) \/ Forgets(y, o, n)
      /\ y # <<>> => Fits(e, y) /\ Final(y) = Final(todo[t]) /\ y[1].do # "increment"
      /\ y = <<>> => Writes(e)
  BY PopIs
<1>2. Continue(t, y, given)
  OBVIOUS
<1>3. todo' = [todo EXCEPT ![t] = y]
  BY <1>2 DEF Continue
<1> HIDE DEF e, y
<1>4. y # <<>> /\ ~Writes(e) /\ e.obj \in Objects
  BY <1>1, StepIs DEF Writes
<1>5. y[1].do \notin {"increment", "track"}
  BY <1>1, <1>4 DEF Fits
<1>6. /\ \A u \in Threads : IdOf(u)'
      /\ id' = [id EXCEPT ![t] = given] /\ swapped' = swapped
  BY <1>2, <1>4, <1>5, IdNext
<1>7. /\ \A x, o, n : HoldsId(x, o, n)' <=>
            x \in Slots /\ x \notin Written' /\ rc'[x].ptr = o /\ rc'[x].id = n
      /\ \A x, o, n : DropsId(x, o, n)' <=>
            x \in Threads /\ IF x = t THEN Forgets(y, o, n) ELSE DropsId(x, o, n)
      /\ \A x, o, n : GivesId(x, o, n)' <=>
            x \in Threads /\
            IF x = t THEN /\ y # <<>> /\ Final(y).do = "store" /\ Final(y).ptr = o
                          /\ y[1].do \notin {"increment", "track"} /\ given = n
            ELSE GivesId(x, o, n)
  BY <1>3, <1>6, KeepsNext
<1>8. \A s \in Slots : s \in Written' <=> Puts(y, s) \/ \E u \in Threads : u # t /\ Puts(todo[u], s)
  BY <1>3, StackChanged
<1>9. \A s \in Slots : s \in Written' <=> s \in Written
  BY <1>1, <1>4, <1>8 DEF Written
<1>10. \A x, o, n : HoldsId(x, o, n)' <=> HoldsId(x, o, n)
  BY <1>7, <1>9, KeepsIs
<1>11. e.do = "track" => Final(todo[t]).do = "store" /\ Final(todo[t]).ptr = e.obj /\ id[t] = 0
  BY <1>1, <1>4 DEF Fits, IInv, NumbersSound, IdOf
<1>12. ASSUME e.do = "untrack" PROVE \A o, n : ~Forgets(y, o, n)
  <2>1. y[1].do = "decrement"
    BY <1>1, <1>4, <1>12 DEF Fits
  <2> QED BY <1>1, <2>1, ForgetsNothing
<1> QED BY <1>1, <1>4, <1>5, <1>6, <1>7, <1>9, <1>10, <1>11, <1>12 DEF e, y

\* A number that is given out is nowhere in use.
LEMMA TrackNumbers ==
    ASSUME IInv, NEW t \in Threads, todo[t] # <<>>, Head(todo[t]).do = "track", Obj(t) \in Tracked,
           NEW i \in Id, IsFresh(i), tracked' = [tracked EXCEPT ![Obj(t)] = @ \cup {i}],
           Continue(t, Tail(todo[t]), i), rc' = rc
    PROVE  NumbersSound'
<1> DEFINE a == Head(todo[t]).obj
           y == Tail(todo[t])
<1>1. Head(todo[t]).do = "track" /\ Continue(t, y, i)
  OBVIOUS
<1>2. /\ Head(todo[t]) = todo[t][1] /\ a \in Objects
      /\ Final(todo[t]).do = "store" /\ Final(todo[t]).ptr = a
      /\ \A o, n : Forgets(y, o, n) <=> Forgets(todo[t], o, n)
      /\ swapped' = swapped /\ \A u \in Threads : IdOf(u)'
      /\ \A x, o, n : HoldsId(x, o, n)' <=> HoldsId(x, o, n)
      /\ \A x, o, n : DropsId(x, o, n)' <=>
            x \in Threads /\ IF x = t THEN Forgets(y, o, n) ELSE DropsId(x, o, n)
      /\ \A x, o, n : GivesId(x, o, n)' <=>
            x \in Threads /\
            IF x = t THEN Final(todo[t]).do = "store" /\ Final(todo[t]).ptr = o /\ i = n
            ELSE GivesId(x, o, n)
  BY <1>1, QuietIs
<1>3. \A o, n : ~GivesId(t, o, n)
  BY <1>2, KeepsIs
<1>4. \A x, o, n : DropsId(x, o, n)' <=> DropsId(x, o, n)
  BY <1>2, KeepsIs
<1>5. \A x, o, n : GivesId(x, o, n)' <=> GivesId(x, o, n) \/ (x = t /\ o = a /\ n = i)
  <2>1. \A x, o, n : GivesId(x, o, n) => x \in Threads
    BY KeepsIs
  <2> QED BY <1>2, <1>3, <2>1
<1>6. /\ a \in Tracked /\ tracked'[a] = tracked[a] \cup {i}
      /\ \A o \in Objects : o # a => tracked'[o] = tracked[o]
  BY <1>2 DEF Obj, IInv, TypeOK
<1>7. i # 0 /\ i \notin tracked[a]
  BY <1>2 DEF IsFresh, InUse
<1> HIDE DEF a, y
<1>8. ASSUME ~swapped, NEW o \in Objects PROVE NumbersOf(o)'
  <2>1. NumbersOf(o)
    BY <1>8 DEF IInv, NumbersSound
  <2>2. CASE o # a
    BY <1>2, <1>4, <1>5, <1>6, <1>8, <2>2, NumbersStay
  <2>3. CASE o = a
    <3>1. \A k, x, n : Keeps(k, x, o, n)' <=> Keeps(k, x, o, n) \/ (k = "gives" /\ x = t /\ n = i)
      BY <1>2, <1>4, <1>5, <2>3 DEF Keeps
    <3>2. \A k, x : ~Keeps(k, x, o, i)
      BY <1>7, <2>1, <2>3 DEF NumbersOf
    <3> QED BY <1>6, <1>7, <2>1, <2>3, <3>1, <3>2 DEF NumbersOf
  <2> QED BY <2>2, <2>3
<1> QED BY <1>2, <1>8, NumbersNext

\* A number that is handed back is what the release had, and nobody else's.
LEMMA UntrackNumbers ==
    ASSUME IInv, NEW t \in Threads, Untrack(t)
    PROVE  NumbersSound'
<1> DEFINE e == Head(todo[t])
           a == e.obj
           m == e.id
           y == Tail(todo[t])
<1>1. /\ todo[t] # <<>> /\ e.do = "untrack" /\ Continue(t, y, id[t]) /\ rc' = rc
      /\ tracked' = IF a \in Tracked THEN [tracked EXCEPT ![a] = @ \ {m}] ELSE tracked
  BY DEF Untrack, Does, Obj
<1>2. /\ e = todo[t][1] /\ a \in Objects
      /\ \A o, n : Forgets(todo[t], o, n) <=> a = o /\ m = n
      /\ \A o, n : ~Forgets(y, o, n)
      /\ swapped' = swapped /\ \A u \in Threads : IdOf(u)'
      /\ \A x, o, n : HoldsId(x, o, n)' <=> HoldsId(x, o, n)
      /\ \A x, o, n : DropsId(x, o, n)' <=>
            x \in Threads /\ IF x = t THEN Forgets(y, o, n) ELSE DropsId(x, o, n)
      /\ \A x, o, n : GivesId(x, o, n)' <=>
            x \in Threads /\
            IF x = t THEN Final(todo[t]).do = "store" /\ Final(todo[t]).ptr = o /\ id[t] = n
            ELSE GivesId(x, o, n)
  <2> DEFINE given == id[t]
  <2>1. todo[t] # <<>> /\ e.do \in {"track", "untrack"} /\ Continue(t, y, given) /\ rc' = rc
    BY <1>1
  <2> HIDE DEF given
  <2>2. /\ e = todo[t][1] /\ a \in Objects
        /\ e.do = "untrack" => \A o, n : Forgets(todo[t], o, n) <=> a = o /\ m = n
        /\ e.do = "untrack" => \A o, n : ~Forgets(y, o, n)
        /\ swapped' = swapped /\ \A u \in Threads : IdOf(u)'
        /\ \A x, o, n : HoldsId(x, o, n)' <=> HoldsId(x, o, n)
        /\ \A x, o, n : DropsId(x, o, n)' <=>
              x \in Threads /\ IF x = t THEN Forgets(y, o, n) ELSE DropsId(x, o, n)
        /\ \A x, o, n : GivesId(x, o, n)' <=>
              x \in Threads /\
              IF x = t THEN Final(todo[t]).do = "store" /\ Final(todo[t]).ptr = o /\ given = n
              ELSE GivesId(x, o, n)
    BY <2>1, QuietIs
  <2> HIDE DEF e, y
  <2> QED BY <1>1, <2>2 DEF given
<1>3. tracked \in [Objects -> SUBSET Id]
  BY DEF IInv, TypeOK
<1> HIDE DEF e, y
<1>4. \A x, o, n : GivesId(x, o, n)' <=> GivesId(x, o, n)
  BY <1>1, <1>2, KeepsIs
<1>5. /\ \A n : DropsId(t, a, n) <=> n = m
      /\ \A o, n : o # a => ~DropsId(t, o, n)
  BY <1>2, KeepsIs
<1>6. \A x, o, n : DropsId(x, o, n)' <=> DropsId(x, o, n) /\ x # t
  <2>1. \A x, o, n : DropsId(x, o, n) => x \in Threads
    BY KeepsIs
  <2> QED BY <1>2, <2>1
<1>7. ASSUME ~swapped, NEW o \in Objects PROVE NumbersOf(o)'
  <2>1. NumbersOf(o)
    BY <1>7 DEF IInv, NumbersSound
  <2>2. CASE o # a
    <3>1. tracked'[o] = tracked[o]
      BY <1>1, <1>3, <2>2
    <3> QED BY <1>2, <1>4, <1>5, <1>6, <1>7, <2>2, <3>1, NumbersStay
  <2>3. CASE o = a
    <3>1. \A k, x, n : Keeps(k, x, o, n)' <=> Keeps(k, x, o, n) /\ ~(k = "drops" /\ x = t)
      BY <1>2, <1>4, <1>6 DEF Keeps
    <3>2. \A n : Keeps("drops", t, o, n) <=> n = m
      BY <1>5, <2>3 DEF Keeps
    <3>3. CASE a \in Tracked
      <4>1. tracked'[o] = tracked[o] \ {m}
        BY <1>1, <1>3, <2>3, <3>3
      <4>2. \A n : n \in tracked'[o] <=> n # 0 /\ \E k, x : Keeps(k, x, o, n)'
        BY <2>1, <3>1, <3>2, <4>1 DEF NumbersOf
      <4> QED BY <2>1, <2>3, <3>1, <3>3, <4>2 DEF NumbersOf
    <3>4. CASE a \notin Tracked
      <4>1. tracked'[o] = {} /\ tracked[o] = {}
        BY <1>1, <2>1, <2>3, <3>4 DEF NumbersOf
      <4> QED BY <2>1, <3>1, <4>1 DEF NumbersOf
    <3> QED BY <3>3, <3>4
  <2> QED BY <2>2, <2>3
<1> QED BY <1>2, <1>7, NumbersNext

LEMMA TrackKeeps ==
    ASSUME IInv, NEW t \in Threads, Track(t) \/ Untrack(t)
    PROVE  IInv'
<1>1. /\ todo[t] # <<>> /\ Head(todo[t]).do \in {"track", "untrack"} /\ UNCHANGED <<live, count, rc>>
      /\ Head(todo[t]) \in Steps
  BY PopIs DEF Track, Untrack, Does
<1>2. Obj(t) \in Objects
  BY <1>1, StepIs DEF Obj
<1>3. tracked \in [Objects -> SUBSET Id] /\ id[t] \in Id
  BY DEF IInv, TypeOK
<1>4. CASE Track(t) /\ Obj(t) \in Tracked
  <2>1. PICK i \in Id : /\ IsFresh(i)
                        /\ tracked' = [tracked EXCEPT ![Obj(t)] = @ \cup {i}]
                        /\ Continue(t, Tail(todo[t]), i)
    BY <1>4 DEF Track
  <2>2. tracked' \in [Objects -> SUBSET Id]
    BY <1>2, <1>3, <2>1
  <2>3. Head(todo[t]).do = "track"
    BY <1>4 DEF Track, Does
  <2>4. NumbersSound'
    BY <1>1, <1>4, <2>1, <2>3, TrackNumbers
  <2> QED BY <1>1, <2>1, <2>2, <2>4, QuietKeeps
<1>5. CASE Track(t) /\ Obj(t) \notin Tracked
  <2>1. Continue(t, Tail(todo[t]), id[t]) /\ tracked' = tracked /\ Head(todo[t]).do = "track"
    BY <1>5 DEF Track, Does
  <2>2. Tail(todo[t]) # <<>> /\ \A s \in Slots : s \in Written' <=> s \in Written
    BY <1>1, <2>1, QuietIs
  <2>3. NumbersSound'
    BY <1>1, <2>1, <2>2, PopStay
  <2> QED BY <1>1, <1>3, <2>1, <2>3, QuietKeeps
<1>6. CASE Untrack(t)
  <2>1. /\ Continue(t, Tail(todo[t]), id[t])
        /\ \/ tracked' = [tracked EXCEPT ![Obj(t)] = @ \ {Head(todo[t]).id}]
           \/ tracked' = tracked
    BY <1>6 DEF Untrack
  <2>2. tracked' \in [Objects -> SUBSET Id]
    BY <1>2, <1>3, <2>1
  <2>3. NumbersSound'
    BY <1>6, UntrackNumbers
  <2> QED BY <1>1, <1>3, <2>1, <2>2, <2>3, QuietKeeps
<1> QED BY <1>4, <1>5, <1>6

\* A release in front of a stack that begins with a write.
LEMMA ReleaseStack ==
    ASSUME RefAssumption, NEW ref \in [ptr : Objects \cup {NULL}, id : Id],
           NEW y, Stack(y), y # <<>>, Writes(y[1]), \A i \in 1..Len(y) : y[i].do # "decrement"
    PROVE  LET z == Release(ref) \o y
           IN  /\ Release(ref) \in Seq(Steps) /\ Stack(z) /\ z # <<>> /\ Final(z) = Final(y)
               /\ z[1].do \in {"untrack", "store", "take"}
               /\ \A o : Has(z, "free", o) <=> Has(y, "free", o)
               /\ \A o : Has(z, "decrement", o) <=> ref.ptr # NULL /\ ref.ptr = o
               /\ \A s : Puts(z, s) <=> Puts(y, s)
               /\ \A o, n : Forgets(z, o, n) <=> ref.ptr # NULL /\ ref.ptr = o /\ ref.id = n
<1> DEFINE c == ref.ptr
           d == [do |-> "decrement", obj |-> c]
           u == [do |-> "untrack", obj |-> c, id |-> ref.id]
           z1 == <<d>> \o y
           z2 == <<u>> \o z1
<1>1. y \in Seq(Steps) /\ (\A o : ~Has(y, "decrement", o))
  BY DEF Stack, Has
<1>2. \A o, n : ~Forgets(y, o, n)
  BY ForgetsNothing
<1>3. CASE c = NULL
  <2>1. Release(ref) = <<>> /\ <<>> \o y = y
    BY <1>1, <1>3, ConcatEmptySeq DEF Release
  <2> HIDE DEF c
  <2>2. Release(ref) \o y = y /\ Release(ref) \in Seq(Steps)
    BY <2>1
  <2>3. ref.ptr = NULL
    BY <1>3 DEF c
  <2> QED BY <1>1, <1>2, <2>2, <2>3 DEF Writes
<1>4. CASE c # NULL
  <2>1. c \in Objects /\ ref.id \in Id
    BY <1>4
  <2>2. d \in Steps /\ u \in Steps /\ d.do = "decrement" /\ d.obj = c /\ u.do = "untrack" /\ u.obj = c
        /\ u.id = ref.id
    BY <2>1 DEF Steps, Plain, Untracks
  <2>3. Release(ref) = <<u, d>>
    BY <1>4 DEF Release
  <2> HIDE DEF u, d
  <2>4. Fits(d, y)
    BY <2>2 DEF Fits, Writes
  <2>5. /\ Stack(z1) /\ z1 \in Seq(Steps) /\ z1 # <<>> /\ z1[1] = d /\ Final(z1) = Final(y)
    BY <1>1, <2>2, <2>4, ConsIs, StackCons
  <2>6. /\ \A o : Has(z1, "free", o) <=> Has(y, "free", o)
        /\ \A o : Has(z1, "decrement", o) <=> o = c
        /\ \A s : Puts(z1, s) <=> Puts(y, s)
    <3>1. \A what, o : Has(z1, what, o) <=> (d.do = what /\ d.obj = o) \/ Has(y, what, o)
      BY <1>1, <2>2, HasCons
    <3>2. \A s : Puts(z1, s) <=> (Writes(d) /\ d.slot = s) \/ Puts(y, s)
      BY <1>1, <2>2, PutsCons
    <3>3. ~Writes(d)
      BY <2>2 DEF Writes
    <3> HIDE DEF z1
    <3> QED BY <1>1, <2>2, <3>1, <3>2, <3>3
  <2>7. \A o, n : ~Forgets(z1, o, n)
    BY <1>1, <1>2, <2>2, ForgetsCons
  <2> HIDE DEF z1
  <2>8. Fits(u, z1)
    BY <2>2, <2>5 DEF Fits
  <2>9. /\ Stack(z2) /\ z2 # <<>> /\ z2[1] = u /\ Final(z2) = Final(y)
    BY <2>2, <2>5, <2>8, ConsIs, StackCons
  <2>10. /\ \A o : Has(z2, "free", o) <=> Has(y, "free", o)
         /\ \A o : Has(z2, "decrement", o) <=> o = c
         /\ \A s : Puts(z2, s) <=> Puts(y, s)
    <3>1. \A what, o : Has(z2, what, o) <=> (u.do = what /\ u.obj = o) \/ Has(z1, what, o)
      BY <2>2, <2>5, HasCons
    <3>2. \A s : Puts(z2, s) <=> (Writes(u) /\ u.slot = s) \/ Puts(z1, s)
      BY <2>2, <2>5, PutsCons
    <3>3. ~Writes(u)
      BY <2>2 DEF Writes
    <3> HIDE DEF z2
    <3> QED BY <2>2, <2>5, <2>6, <3>1, <3>2, <3>3
  <2>11. \A o, n : Forgets(z2, o, n) <=> o = c /\ n = ref.id
    BY <2>2, <2>5, <2>7, ForgetsCons
  <2>12. <<u, d>> = <<u>> \o <<d>> /\ <<u>> \in Seq(Steps) /\ <<d>> \in Seq(Steps) /\ <<u, d>> \in Seq(Steps)
    BY <2>2, PairIs
  <2>13. Release(ref) \o y = z2
    <3>1. (<<u>> \o <<d>>) \o y = <<u>> \o (<<d>> \o y)
      BY <1>1, <2>12, ConcatAssociative
    <3> QED BY <2>3, <2>12, <3>1 DEF z1
  <2> HIDE DEF z2, c
  <2>14. z2[1].do = "untrack"
    BY <2>2, <2>9
  <2>15. ref.ptr # NULL /\ ref.ptr = c
    BY <1>4 DEF c
  <2>16. Release(ref) \in Seq(Steps)
    BY <2>3, <2>12
  <2>17. /\ Stack(z2) /\ z2 # <<>> /\ Final(z2) = Final(y) /\ z2[1].do \in {"untrack", "store", "take"}
         /\ \A o : Has(z2, "free", o) <=> Has(y, "free", o)
         /\ \A o : Has(z2, "decrement", o) <=> ref.ptr # NULL /\ ref.ptr = o
         /\ \A s : Puts(z2, s) <=> Puts(y, s)
         /\ \A o, n : Forgets(z2, o, n) <=> ref.ptr # NULL /\ ref.ptr = o /\ ref.id = n
    BY <2>9, <2>10, <2>11, <2>14, <2>15
  <2> QED BY <2>13, <2>16, <2>17
<1> QED BY <1>3, <1>4

\* delete puts the release of the member and the end of the memory in front of what follows.
LEMMA DeleteStack ==
    ASSUME IInv, NEW b \in Objects, NEW y, Stack(y), y # <<>>, Writes(y[1]), ~Has(y, "free", b),
           \A i \in 1..Len(y) : y[i].do # "decrement"
    PROVE  LET z == DeleteSteps(b) \o y
           IN  /\ Stack(z) /\ z # <<>> /\ Final(z) = Final(y)
               /\ z[1].do \in {"free", "store", "take", "untrack"}
               /\ \A o : Has(z, "free", o) <=> o = b \/ Has(y, "free", o)
               /\ \A o : Has(z, "decrement", o) <=> b \in Owners /\ rc[b].ptr # NULL /\ rc[b].ptr = o
               /\ \A s : Puts(z, s) <=> (b \in Owners /\ s = b) \/ Puts(y, s)
               /\ \A o, n : Forgets(z, o, n) <=>
                    b \in Owners /\ rc[b].ptr # NULL /\ rc[b].ptr = o /\ rc[b].id = n
<1> DEFINE f == [do |-> "free", obj |-> b]
           st == [do |-> "store", slot |-> b, ptr |-> NULL]
           z1 == <<f>> \o y
           z2 == <<st>> \o z1
<1>1. y \in Seq(Steps) /\ f \in Steps /\ f.do = "free" /\ f.obj = b /\ <<f>> \in Seq(Steps)
  BY DEF Stack, Steps, Plain
<1>2. Fits(f, y)
  BY DEF Fits, Writes
<1>3. DeleteSteps(b) = (IF b \in Owners THEN ResetSteps(b) ELSE <<>>) \o <<f>>
  BY DEF DeleteSteps
<1>4. st.do = "store" /\ st.slot = b /\ st.ptr = NULL /\ Store(b, NULL) = <<st>>
  BY DEF Store
<1>5. b \in Owners => st \in Steps /\ <<st>> \in Seq(Steps)
  BY DEF Steps, Stores, Slots
<1> HIDE DEF f, st
<1>6. /\ Stack(z1) /\ z1 \in Seq(Steps) /\ z1 # <<>> /\ z1[1] = f /\ Final(z1) = Final(y)
  BY <1>1, <1>2, ConsIs, StackCons
<1>7. \A o, s : /\ Has(z1, "free", o) <=> o = b \/ Has(y, "free", o)
                /\ ~Has(z1, "decrement", o)
                /\ Puts(z1, s) <=> Puts(y, s)
  <2>1. \A o : ~Has(y, "decrement", o)
    BY DEF Has
  <2> QED BY <1>1, <2>1, HasCons, PutsCons DEF Writes
<1>8. \A i \in 1..Len(z1) : z1[i].do # "decrement"
  BY <1>7, HasNot
<1>9. \A o, n : ~Forgets(z1, o, n)
  BY <1>6, <1>8, ForgetsNothing
<1>10. CASE b \notin Owners
  <2>1. DeleteSteps(b) = <<f>>
    BY <1>1, <1>3, <1>10, ConcatEmptySeq
  <2>2. DeleteSteps(b) \o y = z1
    BY <2>1
  <2> HIDE DEF z1
  <2> QED BY <1>1, <1>6, <1>7, <1>10, <1>9, <2>2
<1>11. CASE b \in Owners
  <2> HIDE DEF z1
  <2>1. Fits(st, z1)
    BY <1>1, <1>4, <1>6, <1>8, <1>11 DEF Fits
  <2>2. /\ Stack(z2) /\ z2 \in Seq(Steps) /\ z2 # <<>> /\ z2[1] = st /\ Final(z2) = Final(y)
    BY <1>5, <1>6, <1>11, <2>1, ConsIs, StackCons
  <2>3. \A o, s : /\ Has(z2, "free", o) <=> o = b \/ Has(y, "free", o)
                  /\ ~Has(z2, "decrement", o)
                  /\ Puts(z2, s) <=> s = b \/ Puts(y, s)
    BY <1>4, <1>5, <1>6, <1>7, <1>11, HasCons, PutsCons DEF Writes
  <2> HIDE DEF z2
  <2>4. \A i \in 1..Len(z2) : z2[i].do # "decrement"
    BY <2>3, HasNot
  <2>5. Writes(z2[1])
    BY <1>4, <2>2 DEF Writes
  <2>6. RefAssumption /\ rc[b] \in [ptr : Objects \cup {NULL}, id : Id]
    BY <1>11 DEF IInv, TypeOK, Slots
  <2> DEFINE z == Release(rc[b]) \o z2
  <2>7. /\ Release(rc[b]) \in Seq(Steps) /\ Stack(z) /\ z # <<>> /\ Final(z) = Final(z2)
        /\ z[1].do \in {"untrack", "store", "take"}
        /\ \A o : Has(z, "free", o) <=> Has(z2, "free", o)
        /\ \A o : Has(z, "decrement", o) <=> rc[b].ptr # NULL /\ rc[b].ptr = o
        /\ \A s : Puts(z, s) <=> Puts(z2, s)
        /\ \A o, n : Forgets(z, o, n) <=> rc[b].ptr # NULL /\ rc[b].ptr = o /\ rc[b].id = n
    BY <2>2, <2>4, <2>5, <2>6, ReleaseStack
  <2>8. DeleteSteps(b) \o y = z
    <3> DEFINE r == Release(rc[b])
    <3>1. r \in Seq(Steps) /\ <<st>> \in Seq(Steps)
      BY <1>5, <1>11, <2>7
    <3>2. DeleteSteps(b) = (r \o <<st>>) \o <<f>>
      BY <1>3, <1>4, <1>11 DEF ResetSteps
    <3> HIDE DEF r
    <3>3. r \o <<st>> \in Seq(Steps)
      BY <3>1, ConcatProperties
    <3>4. DeleteSteps(b) \o y = (r \o <<st>>) \o z1
      BY <1>1, <3>2, <3>3, ConcatAssociative DEF z1
    <3>5. (r \o <<st>>) \o z1 = r \o z2
      BY <1>6, <3>1, ConcatAssociative DEF z2
    <3> QED BY <3>4, <3>5 DEF r
  <2> HIDE DEF z
  <2> QED BY <1>11, <2>2, <2>3, <2>7, <2>8
<1> QED BY <1>10, <1>11

\* What a thread releases: the object, and what is left of its operation.
LEMMA DecrementIs ==
    ASSUME IInv, NEW t \in Threads, Does(t, "decrement")
    PROVE  LET e == Head(todo[t])
               y == Tail(todo[t])
           IN  /\ todo[t] # <<>> /\ e.do = "decrement" /\ e = todo[t][1] /\ e.obj \in Objects
               /\ Stack(y) /\ y \in Seq(Steps) /\ y # <<>> /\ Writes(y[1]) /\ Final(y) = Final(todo[t])
               /\ \A i \in 1..Len(y) : y[i].do # "decrement"
               /\ \A o : Has(todo[t], "decrement", o) <=> o = e.obj
               /\ \A o : ~Has(y, "decrement", o)
               /\ \A o : Has(todo[t], "free", o) <=> Has(y, "free", o)
               /\ \A s : Puts(todo[t], s) <=> Puts(y, s)
               /\ t \in Dropping(e.obj) /\ count[e.obj] \in Nat \ {0} /\ e.obj \in live
               /\ \A u \in Threads : ~Has(todo[u], "free", e.obj)
<1> DEFINE e == Head(todo[t])
           y == Tail(todo[t])
<1>1. todo[t] # <<>> /\ e.do = "decrement"
  BY DEF Does
<1>2. /\ e = todo[t][1] /\ e \in Steps /\ Stack(y)
      /\ \A what, o : Has(todo[t], what, o) <=> (e.do = what /\ e.obj = o) \/ Has(y, what, o)
      /\ \A s : Puts(todo[t], s) <=> (Writes(e) /\ e.slot = s) \/ Puts(y, s)
      /\ y # <<>> => Fits(e, y) /\ Final(y) = Final(todo[t])
      /\ y = <<>> => Writes(e)
  BY <1>1, PopIs
<1> HIDE DEF e, y
<1>3. y # <<>> /\ ~Writes(e) /\ e.obj \in Objects /\ y \in Seq(Steps)
  BY <1>1, <1>2, StepIs DEF Writes, Stack
<1>4. Writes(y[1]) /\ \A i \in 1..Len(y) : y[i].do # "decrement"
  BY <1>1, <1>2, <1>3 DEF Fits
<1>5. \A o : ~Has(y, "decrement", o)
  BY <1>4 DEF Has
<1>6. \A o : Has(todo[t], "decrement", o) <=> o = e.obj
  BY <1>1, <1>2, <1>5
<1>7. t \in Dropping(e.obj)
  BY <1>6 DEF Dropping
<1>8. count[e.obj] \in Nat \ {0} /\ e.obj \in live /\ \A u \in Threads : ~Has(todo[u], "free", e.obj)
  BY <1>3, <1>7, ReferredAlive
<1> QED BY <1>1, <1>2, <1>3, <1>4, <1>5, <1>6, <1>7, <1>8 DEF e, y

\* The last reference: nothing else refers to the object.
LEMMA LastIs ==
    ASSUME IInv, NEW b \in Objects, NEW t, t \in Dropping(b), count[b] = 1
    PROVE  /\ Holding(b) = {} /\ Giving(b) = {} /\ Dropping(b) = {t}
           /\ b \notin Written
<1>1. count[b] = Cardinality(Holding(b)) + Cardinality(Dropping(b)) + Cardinality(Giving(b))
  BY DEF IInv, CountsSound
<1>2. /\ Dropping(b) \ {t} \subseteq Dropping(b) /\ IsFiniteSet(Dropping(b) \ {t})
      /\ Cardinality(Dropping(b) \ {t}) = Cardinality(Dropping(b)) - 1
      /\ Cardinality(Dropping(b) \ {t}) \in Nat
  BY Sizes, FS_RemoveElement, FS_CardinalityType
<1>3. Cardinality(Holding(b)) = 0 /\ Cardinality(Giving(b)) = 0 /\ Cardinality(Dropping(b) \ {t}) = 0
  BY <1>1, <1>2, Sizes
<1>4. Holding(b) = {} /\ Giving(b) = {} /\ Dropping(b) \ {t} = {}
  BY <1>2, <1>3, Sizes, FS_EmptySet
<1>5. ASSUME NEW u \in Threads, Puts(todo[u], b) PROVE FALSE
  <2>1. todo[u] # <<>> /\ b = Final(todo[u]).slot
    BY <1>5, WrittenBy DEF Guarded
  <2>2. Kept(u, b)
    BY <2>1 DEF IInv, UsesSound, UsesOf
  <2>3. b \notin Locals
    BY DEF IInv, RefAssumption
  <2>4. Keeper(u, b)
    BY <2>2, <2>3 DEF Kept
  <2> QED BY <1>4, <2>1, <2>4, KeeperHolds
<1> QED BY <1>4, <1>5 DEF Written

LEMMA ReleaseKeeps ==
    ASSUME IInv, NEW t \in Threads, Decrement(t), count[Obj(t)] # 1
    PROVE  IInv'
<1> DEFINE e == Head(todo[t])
           y == Tail(todo[t])
           b == e.obj
<1>1. /\ Does(t, "decrement") /\ count' = [count EXCEPT ![b] = @ - 1] /\ Continue(t, y, id[t])
      /\ UNCHANGED <<live, tracked, rc>> /\ count[b] # 1
  BY DEF Decrement, Obj
<1>2. /\ todo[t] # <<>> /\ e.do = "decrement" /\ e = todo[t][1] /\ e.obj \in Objects
      /\ Stack(y) /\ y \in Seq(Steps) /\ y # <<>> /\ Writes(y[1]) /\ Final(y) = Final(todo[t])
      /\ \A o : Has(todo[t], "decrement", o) <=> o = e.obj
      /\ \A o : ~Has(y, "decrement", o)
      /\ \A o : Has(todo[t], "free", o) <=> Has(y, "free", o)
      /\ \A s : Puts(todo[t], s) <=> Puts(y, s)
      /\ t \in Dropping(e.obj) /\ count[e.obj] \in Nat \ {0}
  BY <1>1, DecrementIs
<1>3. id[t] \in Id
  BY DEF IInv, TypeOK
<1>4. /\ todo' = [todo EXCEPT ![t] = y] /\ uses' = IF y = <<>> THEN [uses EXCEPT ![t] = {}] ELSE uses
      /\ uses' \in [Threads -> SUBSET Slots] /\ id' \in [Threads -> Id] /\ swapped' \in BOOLEAN
  BY <1>1, <1>2, <1>3, ContinueIs
<1>5. count \in [Objects -> Nat] /\ count'[b] = count[b] - 1 /\ \A o \in Objects : o # b => count'[o] = count[o]
  BY <1>1, <1>2 DEF IInv, TypeOK
<1> HIDE DEF e, y
<1>6. y[1].do # "increment"
  BY <1>2 DEF Writes
<1>7. Stacks' /\ UsesSound' /\ \A u \in Threads : RetainOf(u)'
  BY <1>1, <1>2, <1>4, <1>6, ThreadKeeps
<1>8. /\ \A u \in Threads : \A what, o : Has(todo'[u], what, o) <=>
                IF u = t THEN Has(y, what, o) ELSE Has(todo[u], what, o)
      /\ \A s \in Slots : s \in Written' <=> Puts(y, s) \/ \E u \in Threads : u # t /\ Puts(todo[u], s)
      /\ \A u, o : u \in Dropping(o)' <=> u \in Threads /\
                IF u = t THEN Has(y, "decrement", o) ELSE u \in Dropping(o)
      /\ \A u, o : u \in Giving(o)' <=> u \in Threads /\
                IF u = t THEN y # <<>> /\ Final(y).do = "store" /\ Final(y).ptr = o /\ y[1].do # "increment"
                ELSE u \in Giving(o)
  BY <1>4, StackChanged
<1>9. \A s \in Slots : s \in Written' <=> s \in Written
  BY <1>2, <1>8 DEF Written
<1>10. \A u \in Threads : \A o : Has(todo'[u], "free", o) <=> Has(todo[u], "free", o)
  BY <1>2, <1>8
<1>11. ASSUME NEW o \in Objects
      PROVE  count'[o] = Cardinality(Holding(o)') + Cardinality(Dropping(o)') + Cardinality(Giving(o)')
  <2>1. Holding(o)' = Holding(o)
    BY <1>1, <1>9 DEF Holding
  <2>2. Giving(o)' = Giving(o)
    <3>1. \A u : u \in Giving(o)' <=> u \in Giving(o)
      BY <1>2, <1>6, <1>8, GivingIs
    <3> QED BY <3>1
  <2>3. CASE o # b
    <3>1. \A u : u \in Dropping(o)' <=> u \in Dropping(o)
      BY <1>2, <1>8, <2>3, DroppingIs
    <3>2. Dropping(o)' = Dropping(o)
      BY <3>1
    <3> QED BY <1>5, <2>1, <2>2, <2>3, <3>2, CountKept
  <2>4. CASE o = b
    <3>1. \A u : u \in Dropping(o)' <=> u \in Dropping(o) /\ u # t
      BY <1>2, <1>8, <2>4, DroppingIs
    <3>2. Dropping(o)' = Dropping(o) \ {t} /\ t \in Dropping(o)
      BY <1>2, <2>4, <3>1
    <3>3. Cardinality(Dropping(o)') = Cardinality(Dropping(o)) - 1
      BY <3>2, Sizes, FS_RemoveElement
    <3>4. count[o] = Cardinality(Holding(o)) + Cardinality(Dropping(o)) + Cardinality(Giving(o))
      BY DEF IInv, CountsSound
    <3> QED BY <1>5, <2>1, <2>2, <2>4, <3>3, <3>4, Sizes
  <2> QED BY <2>3, <2>4
<1>12. CountsSound'
  BY <1>11 DEF CountsSound
<1>13. FreesSound'
  <2>1. \A o \in Objects : (count'[o] = 0 <=> count[o] = 0) /\ (o \notin live => count'[o] = 0)
    BY <1>1, <1>2, <1>5 DEF IInv, FreesSound
  <2>2. live' = live
    BY <1>1
  <2> QED BY <1>10, <2>1, <2>2, FreesIs DEF IInv, FreesSound
<1>14. TypeOK'
  <2>1. count' \in [Objects -> Nat]
    BY <1>1, <1>2, <1>5
  <2> QED BY <1>1, <1>4, <2>1 DEF IInv, TypeOK
<1>15. NumbersSound'
  <2>1. e.do # "untrack" /\ tracked' = tracked /\ rc' = rc
    BY <1>1, <1>2
  <2> QED BY <1>1, <1>2, <1>9, <2>1, PopStay DEF e, y
<1> QED BY <1>7, <1>12, <1>13, <1>14, <1>15 DEF IInv, RefAssumption, Slots, Id

\* The last reference goes: what the object's member refers to is about to be released instead.
LEMMA DeleteKeeps ==
    ASSUME IInv, NEW t \in Threads, Decrement(t), count[Obj(t)] = 1
    PROVE  IInv'
<1> DEFINE e == Head(todo[t])
           y == Tail(todo[t])
           b == e.obj
           z == DeleteSteps(b) \o y
           Member(o) == b \in Owners /\ rc[b].ptr = o
<1>1. /\ Does(t, "decrement") /\ count' = [count EXCEPT ![b] = @ - 1] /\ Continue(t, z, id[t])
      /\ UNCHANGED <<live, tracked, rc>> /\ count[b] = 1
  BY DEF Decrement, Obj
<1>2. /\ todo[t] # <<>> /\ e.do = "decrement" /\ e = todo[t][1] /\ b \in Objects
      /\ Stack(y) /\ y \in Seq(Steps) /\ y # <<>> /\ Writes(y[1]) /\ Final(y) = Final(todo[t])
      /\ \A i \in 1..Len(y) : y[i].do # "decrement"
      /\ \A o : Has(todo[t], "decrement", o) <=> o = e.obj
      /\ \A o : Has(todo[t], "free", o) <=> Has(y, "free", o)
      /\ \A s : Puts(todo[t], s) <=> Puts(y, s)
      /\ t \in Dropping(b) /\ b \in live /\ \A u \in Threads : ~Has(todo[u], "free", b)
  BY <1>1, DecrementIs
<1>3. /\ Stack(z) /\ z # <<>> /\ Final(z) = Final(y)
      /\ z[1].do \in {"free", "store", "take", "untrack"}
      /\ \A o : Has(z, "free", o) <=> o = b \/ Has(y, "free", o)
      /\ \A o : Has(z, "decrement", o) <=> b \in Owners /\ rc[b].ptr # NULL /\ rc[b].ptr = o
      /\ \A s : Puts(z, s) <=> (b \in Owners /\ s = b) \/ Puts(y, s)
      /\ \A o, n : Forgets(z, o, n) <=> b \in Owners /\ rc[b].ptr # NULL /\ rc[b].ptr = o /\ rc[b].id = n
  <2>1. y # <<>> /\ ~Has(y, "free", b)
    BY <1>2
  <2> HIDE DEF y, b
  <2>2. /\ b \in Objects /\ Stack(y) /\ y # <<>> /\ Writes(y[1]) /\ ~Has(y, "free", b)
        /\ \A i \in 1..Len(y) : y[i].do # "decrement"
    BY <1>2, <2>1 DEF b
  <2> QED BY <2>2, DeleteStack
<1>4. id[t] \in Id /\ z \in Seq(Steps)
  BY <1>3 DEF IInv, TypeOK, Stack
<1>5. /\ Holding(b) = {} /\ Giving(b) = {} /\ Dropping(b) = {t} /\ b \notin Written
  BY <1>1, <1>2, LastIs
<1> HIDE DEF z
<1>6. /\ todo' = [todo EXCEPT ![t] = z] /\ uses' = IF z = <<>> THEN [uses EXCEPT ![t] = {}] ELSE uses
      /\ uses' \in [Threads -> SUBSET Slots] /\ id' \in [Threads -> Id] /\ swapped' \in BOOLEAN
  BY <1>1, <1>4, ContinueIs
<1>7. count \in [Objects -> Nat] /\ count'[b] = 0 /\ \A o \in Objects : o # b => count'[o] = count[o]
  BY <1>1, <1>2 DEF IInv, TypeOK
<1> HIDE DEF e, y
<1>8. Stacks' /\ UsesSound' /\ \A u \in Threads : RetainOf(u)'
  BY <1>1, <1>2, <1>3, <1>6, ThreadKeeps
<1>9. /\ \A u \in Threads : \A what, o : Has(todo'[u], what, o) <=>
                IF u = t THEN Has(z, what, o) ELSE Has(todo[u], what, o)
      /\ \A s \in Slots : s \in Written' <=> Puts(z, s) \/ \E u \in Threads : u # t /\ Puts(todo[u], s)
      /\ \A u, o : u \in Dropping(o)' <=> u \in Threads /\
                IF u = t THEN Has(z, "decrement", o) ELSE u \in Dropping(o)
      /\ \A u, o : u \in Giving(o)' <=> u \in Threads /\
                IF u = t THEN z # <<>> /\ Final(z).do = "store" /\ Final(z).ptr = o /\ z[1].do # "increment"
                ELSE u \in Giving(o)
  BY <1>6, StackChanged
<1>10. \A s \in Slots : s \in Written' <=> s \in Written \/ (b \in Owners /\ s = b)
  BY <1>2, <1>3, <1>9 DEF Written
<1>11. \A u \in Threads : \A o : Has(todo'[u], "free", o) <=> Has(todo[u], "free", o) \/ (u = t /\ o = b)
  BY <1>2, <1>3, <1>9
<1>12. \A o \in Objects : Member(o) => b \in Holding(o) /\ o # b
  BY <1>5 DEF Holding, Slots
<1>13. ASSUME NEW o \in Objects
       PROVE  count'[o] = Cardinality(Holding(o)') + Cardinality(Dropping(o)') + Cardinality(Giving(o)')
  <2>1. \A s : s \in Holding(o)' <=> s \in Holding(o) /\ ~(b \in Owners /\ s = b)
    <3>1. \A s : s \in Holding(o)' <=> s \in Slots /\ s \notin Written' /\ rc[s].ptr = o
      BY <1>1 DEF Holding, Slots
    <3> QED BY <1>10, <3>1 DEF Holding
  <2>2. Giving(o)' = Giving(o)
    <3>1. \A u : u \in Giving(o)' <=> u \in Giving(o)
      BY <1>2, <1>3, <1>9, GivingIs
    <3> QED BY <3>1
  <2>3. \A u : u \in Dropping(o)' <=> (u \in Dropping(o) /\ ~(u = t /\ o = b)) \/ (u = t /\ Member(o))
    <3>1. Has(z, "decrement", o) <=> Member(o)
      BY <1>3 DEF IInv, RefAssumption
    <3>2. t \in Dropping(o) <=> o = b
      BY <1>2, DroppingIs
    <3> HIDE DEF Member
    <3> QED BY <1>9, <1>12, <3>1, <3>2, DroppingIs
  <2>4. count[o] = Cardinality(Holding(o)) + Cardinality(Dropping(o)) + Cardinality(Giving(o))
    BY DEF IInv, CountsSound
  <2>5. CASE o = b
    <3>1. Holding(o)' = {} /\ Dropping(o)' = {} /\ Giving(o)' = {}
      BY <1>5, <1>12, <2>1, <2>2, <2>3, <2>5
    <3> QED BY <1>7, <2>5, <3>1, FS_EmptySet
  <2>6. CASE o # b /\ ~Member(o)
    <3>1. \A s : s \in Holding(o)' <=> s \in Holding(o)
      BY <2>1, <2>6 DEF Holding
    <3>2. \A u : u \in Dropping(o)' <=> u \in Dropping(o)
      BY <2>3, <2>6
    <3>3. Holding(o)' = Holding(o) /\ Dropping(o)' = Dropping(o)
      BY <3>1, <3>2
    <3> QED BY <1>7, <2>2, <2>6, <3>3, CountKept
  <2>7. CASE o # b /\ Member(o)
    <3>1. Holding(o)' = Holding(o) \ {b} /\ b \in Holding(o)
      <4>1. b \in Holding(o) /\ b \in Owners
        BY <1>12, <2>7
      <4> QED BY <2>1, <4>1
    <3>2. Dropping(o)' = Dropping(o) \cup {t} /\ t \notin Dropping(o)
      <4>1. t \notin Dropping(o)
        BY <1>2, <2>7, DroppingIs
      <4>2. \A u : u \in Dropping(o)' <=> u \in Dropping(o) \/ u = t
        BY <2>3, <2>7
      <4> QED BY <4>1, <4>2
    <3>3. /\ Cardinality(Holding(o)') = Cardinality(Holding(o)) - 1
          /\ Cardinality(Dropping(o)') = Cardinality(Dropping(o)) + 1
      <4>1. IsFiniteSet(Holding(o)) /\ IsFiniteSet(Dropping(o))
        BY Sizes
      <4>2. Cardinality(Holding(o) \ {b}) = Cardinality(Holding(o)) - 1
        BY <3>1, <4>1, FS_RemoveElement
      <4>3. Cardinality(Dropping(o) \cup {t}) = Cardinality(Dropping(o)) + 1
        BY <3>2, <4>1, FS_AddElement
      <4> QED BY <3>1, <3>2, <4>2, <4>3
    <3> QED BY <1>7, <2>2, <2>4, <2>7, <3>3, Sizes
  <2> QED BY <2>5, <2>6, <2>7
<1>14. CountsSound'
  BY <1>13 DEF CountsSound
<1>15. FreesSound'
  <2>1. live' = live
    BY <1>1
  <2>2. \A o \in Objects : o \in live' /\ count'[o] = 0 <=> \E u \in Threads : Has(todo'[u], "free", o)
    <3>1. \A o \in Objects : o \in live /\ count[o] = 0 <=> \E u \in Threads : Has(todo[u], "free", o)
      BY DEF IInv, FreesSound
    <3> QED BY <1>2, <1>7, <1>11, <2>1, <3>1
  <2>3. \A u, v \in Threads : \A o \in Objects : Has(todo'[u], "free", o) /\ Has(todo'[v], "free", o) => u = v
    <3>1. \A u, v \in Threads : \A o \in Objects : Has(todo[u], "free", o) /\ Has(todo[v], "free", o) => u = v
      BY DEF IInv, FreesSound
    <3>2. \A u \in Threads : ~Has(todo[u], "free", b)
      BY <1>2
    <3> QED BY <1>11, <3>1, <3>2
  <2>4. \A o \in Objects : o \notin live' => count'[o] = 0
    BY <1>2, <1>7, <2>1 DEF IInv, FreesSound
  <2> QED BY <2>2, <2>3, <2>4, FreesIs
<1>16. TypeOK'
  <2>1. count' \in [Objects -> Nat]
    <3>1. 0 \in Nat /\ count[b] - 1 = 0
      BY <1>1
    <3> QED BY <1>1, <1>2, <1>7, <3>1
  <2> QED BY <1>1, <1>6, <2>1 DEF IInv, TypeOK
<1>17. NumbersSound'
  <2>1. \A o, n : ~Forgets(todo[t], o, n)
    BY <1>2, ForgetsNothing DEF IInv, Stacks
  <2>2. z[1].do \notin {"increment", "track"} /\ todo[t][1].do \notin {"increment", "track"}
    BY <1>2, <1>3
  <2>3. /\ \A u \in Threads : IdOf(u)'
        /\ id' = [id EXCEPT ![t] = id[t]] /\ swapped' = swapped
    BY <1>1, <1>3, <2>2, IdNext
  <2>4. /\ \A x, o, n : HoldsId(x, o, n)' <=>
              x \in Slots /\ x \notin Written' /\ rc'[x].ptr = o /\ rc'[x].id = n
        /\ \A x, o, n : DropsId(x, o, n)' <=>
              x \in Threads /\ IF x = t THEN Forgets(z, o, n) ELSE DropsId(x, o, n)
        /\ \A x, o, n : GivesId(x, o, n)' <=>
              x \in Threads /\
              IF x = t THEN /\ z # <<>> /\ Final(z).do = "store" /\ Final(z).ptr = o
                            /\ z[1].do \notin {"increment", "track"} /\ id[t] = n
              ELSE GivesId(x, o, n)
    BY <1>6, <2>3, KeepsNext
  <2>5. \A x, o, n : HoldsId(x, o, n)' <=> HoldsId(x, o, n) /\ ~(b \in Owners /\ x = b)
    BY <1>1, <1>10, <2>4, KeepsIs
  <2>6. \A o \in Objects : \A x, n : DropsId(x, o, n)' <=>
            DropsId(x, o, n) \/ (x = t /\ Member(o) /\ rc[b].id = n)
    <3>1. \A o \in Objects : o # NULL
      BY DEF IInv, RefAssumption
    <3> QED BY <1>3, <2>1, <2>4, <3>1, KeepsIs
  <2>7. \A x, o, n : GivesId(x, o, n)' <=> GivesId(x, o, n)
    BY <1>2, <1>3, <2>2, <2>4, KeepsIs
  <2>8. ASSUME ~swapped, NEW o \in Objects PROVE NumbersOf(o)'
    <3>1. tracked'[o] = tracked[o]
      BY <1>1
    <3>2. CASE Member(o)
      <4>1. PICK c, m : c = b /\ m = rc[b].id
        OBVIOUS
      <4>2. c \in Owners /\ HoldsId(c, o, m) /\ \A n : HoldsId(c, o, n) => n = m
        BY <1>12, <3>2, <4>1 DEF HoldsId
      <4>3. \A n : DropsId(t, o, n)' <=> DropsId(t, o, n) \/ n = m
        BY <2>6, <3>2, <4>1
      <4>4. \A x, n : HoldsId(x, o, n)' <=> HoldsId(x, o, n) /\ x # c
        BY <2>5, <4>1, <4>2
      <4>5. \A x, n : x # t => (DropsId(x, o, n)' <=> DropsId(x, o, n))
        BY <2>6
      <4>6. \A k, x, n : Keeps(k, x, o, n)' <=>
                (Keeps(k, x, o, n) /\ ~(k = "holds" /\ x = c)) \/ (k = "drops" /\ x = t /\ n = m)
        BY <2>7, <4>3, <4>4, <4>5 DEF Keeps
      <4>7. Keeps("holds", c, o, m) /\ \A n : Keeps("holds", c, o, n) => n = m
        BY <4>2 DEF Keeps
      <4>8. Moved(o, "holds", c, "drops", t, m)
        BY <4>6, <4>7 DEF Moved
      <4> QED BY <2>8, <3>1, <4>8, NumbersMove
    <3>3. CASE ~Member(o)
      <4>1. \A n : b \in Owners => ~HoldsId(b, o, n)
        BY <3>3, KeepsIs
      <4> HIDE DEF Member
      <4>2. \A x, n : n # 0 => /\ HoldsId(x, o, n)' <=> HoldsId(x, o, n)
                               /\ DropsId(x, o, n)' <=> DropsId(x, o, n)
                               /\ GivesId(x, o, n)' <=> GivesId(x, o, n)
        BY <2>5, <2>6, <2>7, <3>3, <4>1
      <4> QED BY <2>8, <3>1, <4>2, NumbersStay
    <3> QED BY <3>2, <3>3
  <2> QED BY <2>3, <2>8, NumbersNext
<1> QED BY <1>8, <1>14, <1>15, <1>16, <1>17 DEF IInv, RefAssumption, Slots, Id

LEMMA DecrementKeeps ==
    ASSUME IInv, NEW t \in Threads, Decrement(t)
    PROVE  IInv'
BY ReleaseKeeps, DeleteKeeps

\* A step that releases nothing, and what it leaves to do.
LEMMA PopChanged ==
    ASSUME IInv, NEW t \in Threads, todo[t] # <<>>, Head(todo[t]).do \in {"store", "take", "free"},
           Continue(t, Tail(todo[t]), id[t])
    PROVE  LET e == Head(todo[t])
               y == Tail(todo[t])
           IN  /\ e = todo[t][1] /\ e \in Steps /\ Stack(y)
               /\ todo' = [todo EXCEPT ![t] = y]
               /\ uses' = IF y = <<>> THEN [uses EXCEPT ![t] = {}] ELSE uses
               /\ uses' \in [Threads -> SUBSET Slots] /\ id' \in [Threads -> Id] /\ swapped' \in BOOLEAN
               /\ y # <<>> => Fits(e, y) /\ Final(y) = Final(todo[t]) /\ y[1].do # "increment"
               /\ y = <<>> => Writes(e) /\ Final(todo[t]) = e
               /\ \A s : Puts(todo[t], s) <=> (Writes(e) /\ e.slot = s) \/ Puts(y, s)
               /\ \A s \in Slots : s \in Written' <=> Puts(y, s) \/ \E u \in Threads : u # t /\ Puts(todo[u], s)
               /\ \A o : Has(todo[t], "free", o) <=> (e.do = "free" /\ e.obj = o) \/ Has(y, "free", o)
               /\ \A u \in Threads : \A o : Has(todo'[u], "free", o) <=>
                    IF u = t THEN Has(y, "free", o) ELSE Has(todo[u], "free", o)
               /\ \A o : Dropping(o)' = Dropping(o)
               /\ \A o : y # <<>> => Giving(o)' = Giving(o)
               /\ \A o : y = <<>> => Giving(o)' = Giving(o) \ {t}
<1> DEFINE e == Head(todo[t])
           y == Tail(todo[t])
<1>1. /\ e = todo[t][1] /\ e \in Steps /\ Stack(y) /\ e.do \in {"store", "take", "free"}
      /\ \A what, o : Has(todo[t], what, o) <=> (e.do = what /\ e.obj = o) \/ Has(y, what, o)
      /\ \A s : Puts(todo[t], s) <=> (Writes(e) /\ e.slot = s) \/ Puts(y, s)
      /\ y # <<>> => Fits(e, y) /\ Final(y) = Final(todo[t]) /\ y[1].do # "increment"
      /\ y = <<>> => Writes(e) /\ Final(todo[t]) = e
  BY PopIs
<1>2. y \in Seq(Steps) /\ id[t] \in Id
  BY <1>1 DEF Stack, IInv, TypeOK
<1>3. /\ todo' = [todo EXCEPT ![t] = y] /\ uses' = IF y = <<>> THEN [uses EXCEPT ![t] = {}] ELSE uses
      /\ uses' \in [Threads -> SUBSET Slots] /\ id' \in [Threads -> Id] /\ swapped' \in BOOLEAN
  BY <1>2, ContinueIs
<1> HIDE DEF e, y
<1>4. /\ \A u \in Threads : \A what, o : Has(todo'[u], what, o) <=>
                IF u = t THEN Has(y, what, o) ELSE Has(todo[u], what, o)
      /\ \A s \in Slots : s \in Written' <=> Puts(y, s) \/ \E u \in Threads : u # t /\ Puts(todo[u], s)
      /\ \A u, o : u \in Dropping(o)' <=> u \in Threads /\
                IF u = t THEN Has(y, "decrement", o) ELSE u \in Dropping(o)
      /\ \A u, o : u \in Giving(o)' <=> u \in Threads /\
                IF u = t THEN y # <<>> /\ Final(y).do = "store" /\ Final(y).ptr = o /\ y[1].do # "increment"
                ELSE u \in Giving(o)
  BY <1>3, StackChanged
<1>5. ASSUME NEW o PROVE Dropping(o)' = Dropping(o)
  <2>1. \A u : u \in Dropping(o)' <=> u \in Dropping(o)
    BY <1>1, <1>4, DroppingIs
  <2> QED BY <2>1
<1>6. ASSUME NEW o, y # <<>> PROVE Giving(o)' = Giving(o)
  <2>1. \A u : u \in Giving(o)' <=> u \in Giving(o)
    BY <1>1, <1>4, <1>6, GivingIs
  <2> QED BY <2>1
<1>7. ASSUME NEW o, y = <<>> PROVE Giving(o)' = Giving(o) \ {t}
  <2>1. \A u : u \in Giving(o)' <=> u \in Giving(o) /\ u # t
    BY <1>4, <1>7, GivingIs
  <2> QED BY <2>1
<1> QED BY <1>1, <1>3, <1>4, <1>5, <1>6, <1>7 DEF e, y

LEMMA FreedKeeps ==
    ASSUME IInv, NEW t \in Threads, Freed(t)
    PROVE  IInv'
<1> DEFINE e == Head(todo[t])
           y == Tail(todo[t])
           b == e.obj
<1>1. /\ todo[t] # <<>> /\ e.do = "free" /\ live' = live \ {b}
      /\ Continue(t, y, id[t]) /\ UNCHANGED <<count, tracked, rc>>
  BY DEF Freed, Does, Obj
<1>2. /\ e = todo[t][1] /\ e \in Steps /\ Stack(y)
      /\ todo' = [todo EXCEPT ![t] = y] /\ uses' = IF y = <<>> THEN [uses EXCEPT ![t] = {}] ELSE uses
      /\ uses' \in [Threads -> SUBSET Slots] /\ id' \in [Threads -> Id] /\ swapped' \in BOOLEAN
      /\ y # <<>> => Fits(e, y) /\ Final(y) = Final(todo[t]) /\ y[1].do # "increment"
      /\ y = <<>> => Writes(e)
      /\ \A s : Puts(todo[t], s) <=> (Writes(e) /\ e.slot = s) \/ Puts(y, s)
      /\ \A s \in Slots : s \in Written' <=> Puts(y, s) \/ \E u \in Threads : u # t /\ Puts(todo[u], s)
      /\ \A o : Has(todo[t], "free", o) <=> (e.do = "free" /\ e.obj = o) \/ Has(y, "free", o)
      /\ \A u \in Threads : \A o : Has(todo'[u], "free", o) <=>
            IF u = t THEN Has(y, "free", o) ELSE Has(todo[u], "free", o)
      /\ \A o : Dropping(o)' = Dropping(o)
      /\ \A o : y # <<>> => Giving(o)' = Giving(o)
  BY <1>1, PopChanged
<1> HIDE DEF e, y
<1>3. y # <<>> /\ ~Writes(e) /\ b \in Objects
  BY <1>1, <1>2, StepIs DEF Writes
<1>4. Stacks' /\ UsesSound' /\ \A u \in Threads : RetainOf(u)'
  BY <1>1, <1>2, ThreadKeeps
<1>5. \A s \in Slots : s \in Written' <=> s \in Written
  BY <1>2, <1>3 DEF Written
<1>6. \A u \in Threads : \A o \in Objects : Has(todo'[u], "free", o) <=> Has(todo[u], "free", o) /\ o # b
  <2>1. Has(todo[t], "free", b) /\ ~Has(y, "free", b)
    BY <1>1, <1>2, <1>3 DEF Fits
  <2>2. \A u \in Threads : u # t => ~Has(todo[u], "free", b)
    BY <1>3, <2>1 DEF IInv, FreesSound
  <2> QED BY <1>1, <1>2, <2>1, <2>2
<1>7. b \in live /\ count[b] = 0
  BY <1>1, <1>2, <1>3 DEF IInv, FreesSound
<1>8. ASSUME NEW o \in Objects
      PROVE  count'[o] = Cardinality(Holding(o)') + Cardinality(Dropping(o)') + Cardinality(Giving(o)')
  <2>1. Holding(o)' = Holding(o)
    BY <1>1, <1>5 DEF Holding
  <2> QED BY <1>1, <1>2, <1>3, <2>1, CountKept
<1>9. CountsSound'
  BY <1>8 DEF CountsSound
<1>10. FreesSound'
  <2>1. \A o \in Objects : o \in live /\ count[o] = 0 <=> \E u \in Threads : Has(todo[u], "free", o)
    BY DEF IInv, FreesSound
  <2>2. \A o \in Objects : o \in live' /\ count'[o] = 0 <=> \E u \in Threads : Has(todo'[u], "free", o)
    BY <1>1, <1>6, <2>1
  <2>3. \A o \in Objects : o \notin live' => count'[o] = 0
    BY <1>1, <1>7 DEF IInv, FreesSound
  <2> QED BY <1>6, <2>2, <2>3, FreesIs DEF IInv, FreesSound
<1>11. TypeOK'
  BY <1>1, <1>2 DEF IInv, TypeOK
<1>12. NumbersSound'
  <2>1. e.do # "untrack" /\ tracked' = tracked /\ rc' = rc
    BY <1>1
  <2> QED BY <1>1, <1>3, <1>5, <2>1, PopStay DEF e, y
<1> QED BY <1>4, <1>9, <1>10, <1>11, <1>12 DEF IInv, RefAssumption, Slots, Id

\* The member of an object that is being deleted becomes null: nobody looks at it any more.
LEMMA MemberStoredKeeps ==
    ASSUME IInv, NEW t \in Threads, Stored(t), Tail(todo[t]) # <<>>
    PROVE  IInv'
<1> DEFINE e == Head(todo[t])
           y == Tail(todo[t])
           w == e.slot
<1>1. /\ todo[t] # <<>> /\ e.do = "store" /\ y # <<>>
      /\ rc' = [rc EXCEPT ![w] = IF e.ptr = NULL THEN None ELSE [ptr |-> e.ptr, id |-> id[t]]]
      /\ Continue(t, y, id[t]) /\ UNCHANGED <<live, count, tracked>>
  BY DEF Stored, Does
<1>2. /\ e = todo[t][1] /\ e \in Steps /\ Stack(y)
      /\ todo' = [todo EXCEPT ![t] = y] /\ uses' = IF y = <<>> THEN [uses EXCEPT ![t] = {}] ELSE uses
      /\ uses' \in [Threads -> SUBSET Slots] /\ id' \in [Threads -> Id] /\ swapped' \in BOOLEAN
      /\ y # <<>> => Fits(e, y) /\ Final(y) = Final(todo[t]) /\ y[1].do # "increment"
      /\ \A s : Puts(todo[t], s) <=> (Writes(e) /\ e.slot = s) \/ Puts(y, s)
      /\ \A s \in Slots : s \in Written' <=> Puts(y, s) \/ \E u \in Threads : u # t /\ Puts(todo[u], s)
      /\ \A o : Has(todo[t], "free", o) <=> (e.do = "free" /\ e.obj = o) \/ Has(y, "free", o)
      /\ \A u \in Threads : \A o : Has(todo'[u], "free", o) <=>
            IF u = t THEN Has(y, "free", o) ELSE Has(todo[u], "free", o)
      /\ \A o : Dropping(o)' = Dropping(o)
      /\ \A o : y # <<>> => Giving(o)' = Giving(o)
  BY <1>1, PopChanged
<1> HIDE DEF e, y
<1>3. e.ptr = NULL /\ w \in Owners /\ w \in Slots /\ w \in Objects /\ y[1].do = "free" /\ y[1].obj = w
  BY <1>1, <1>2 DEF Fits, Slots, IInv, RefAssumption
<1>4. Has(y, "free", w)
  <2>1. 1 \in 1..Len(y)
    BY <1>1, <1>2, EmptySeq, LenProperties DEF Stack
  <2> QED BY <1>3, <2>1 DEF Has
<1>5. Has(todo[t], "free", w)
  BY <1>2, <1>4
<1>6. ~Guarded(w)
  BY <1>3, <1>5 DEF Guarded, IInv, FreesSound, RefAssumption
<1>7. /\ rc \in [Slots -> [ptr : Objects \cup {NULL}, id : Id]]
      /\ rc'[w].ptr = NULL /\ \A s \in Slots : s # w => rc'[s] = rc[s]
  BY <1>1, <1>3 DEF IInv, TypeOK, None
<1>8. Stacks' /\ UsesSound' /\ \A u \in Threads : RetainOf(u)'
  <2>1. \A u \in Threads : \A r \in uses'[u] : Guarded(r) => rc'[r].ptr = rc[r].ptr
    BY <1>2, <1>6, <1>7
  <2> QED BY <1>1, <1>2, <2>1, ThreadKeeps
<1>9. w \in Written /\ \A s \in Slots : s # w => (s \in Written' <=> s \in Written)
  <2>1. Writes(e)
    BY <1>1 DEF Writes
  <2> QED BY <1>2, <1>3, <2>1 DEF Written
<1>10. \A u \in Threads : \A o : Has(todo'[u], "free", o) <=> Has(todo[u], "free", o)
  BY <1>1, <1>2
<1>11. ASSUME NEW o \in Objects
       PROVE  count'[o] = Cardinality(Holding(o)') + Cardinality(Dropping(o)') + Cardinality(Giving(o)')
  <2>1. \A s : s \in Holding(o)' <=> s \in Slots /\ s \notin Written' /\ rc'[s].ptr = o
    BY DEF Holding, Slots
  <2>2. o # NULL
    BY DEF IInv, RefAssumption
  <2>3. \A s : s \in Holding(o)' <=> s \in Holding(o)
    BY <1>7, <1>9, <2>1, <2>2 DEF Holding
  <2>4. Holding(o)' = Holding(o)
    BY <2>3
  <2> QED BY <1>1, <1>2, <2>4, CountKept
<1>12. CountsSound'
  BY <1>11 DEF CountsSound
<1>13. FreesSound'
  BY <1>1, <1>10, FreesIs DEF IInv, FreesSound
<1>14. TypeOK'
  <2>1. None \in [ptr : Objects \cup {NULL}, id : Id]
    BY DEF None, Id, IInv, RefAssumption
  <2>2. rc' \in [Slots -> [ptr : Objects \cup {NULL}, id : Id]]
    BY <1>1, <1>3, <1>7, <2>1
  <2> QED BY <1>1, <1>2, <2>2 DEF IInv, TypeOK
<1>15. NumbersSound'
  <2>1. e.do # "untrack" /\ tracked' = tracked
    BY <1>1
  <2>2. \A s \in Slots : s \notin Written' /\ rc'[s].ptr # NULL => s \notin Written /\ rc'[s] = rc[s]
    BY <1>7, <1>9
  <2>3. \A s \in Slots : s \notin Written /\ rc[s].ptr # NULL => s \notin Written' /\ rc'[s] = rc[s]
    BY <1>7, <1>9
  <2> QED BY <1>1, <2>1, <2>2, <2>3, PopStay DEF e, y
<1> QED BY <1>8, <1>12, <1>13, <1>14, <1>15 DEF IInv, RefAssumption, Slots, Id

\* The last step of an operation.
LEMMA LastNumbers ==
    ASSUME IInv, NEW t \in Threads, todo[t] # <<>>, Tail(todo[t]) = <<>>, Head(todo[t]).do \in {"store", "take"},
           Continue(t, <<>>, id[t])
    PROVE  /\ swapped' = swapped /\ \A u \in Threads : IdOf(u)'
           /\ \A s \in Slots : s \in Written' <=> s \in Written \ {Head(todo[t]).slot}
           /\ \A x, o, n : HoldsId(x, o, n)' <=>
                x \in Slots /\ x \notin Written' /\ rc'[x].ptr = o /\ rc'[x].id = n
           /\ \A x, o, n : DropsId(x, o, n)' <=> DropsId(x, o, n)
           /\ \A x, o, n : GivesId(x, o, n)' <=> GivesId(x, o, n) /\ x # t
<1> DEFINE e == Head(todo[t])
           y == Tail(todo[t])
<1>1. /\ e = todo[t][1] /\ Writes(e) /\ Final(todo[t]) = e /\ Stack(y)
      /\ \A s : Puts(todo[t], s) <=> (Writes(e) /\ e.slot = s) \/ Puts(y, s)
      /\ \A o, n : Forgets(todo[t], o, n) <=>
            (e.do = "untrack" /\ e.obj = o /\ e.id = n) \/ Forgets(y, o, n)
  BY PopIs
<1>2. Continue(t, y, id[t]) /\ y = <<>> /\ e.do \in {"store", "take"}
  OBVIOUS
<1> HIDE DEF e, y
<1>3. todo' = [todo EXCEPT ![t] = y]
  BY <1>2 DEF Continue
<1>4. /\ \A u \in Threads : IdOf(u)'
      /\ id' = [id EXCEPT ![t] = 0] /\ swapped' = swapped
  BY <1>2, IdNext
<1>5. /\ \A x, o, n : HoldsId(x, o, n)' <=>
            x \in Slots /\ x \notin Written' /\ rc'[x].ptr = o /\ rc'[x].id = n
      /\ \A x, o, n : DropsId(x, o, n)' <=>
            x \in Threads /\ IF x = t THEN Forgets(y, o, n) ELSE DropsId(x, o, n)
      /\ \A x, o, n : GivesId(x, o, n)' <=>
            x \in Threads /\
            IF x = t THEN /\ y # <<>> /\ Final(y).do = "store" /\ Final(y).ptr = o
                          /\ y[1].do \notin {"increment", "track"} /\ 0 = n
            ELSE GivesId(x, o, n)
  BY <1>3, <1>4, KeepsNext
<1>6. \A x, o, n : DropsId(x, o, n)' <=> DropsId(x, o, n)
  BY <1>1, <1>2, <1>5, KeepsIs
<1>7. \A x, o, n : GivesId(x, o, n)' <=> GivesId(x, o, n) /\ x # t
  <2>1. \A x, o, n : GivesId(x, o, n) => x \in Threads
    BY KeepsIs
  <2> QED BY <1>2, <1>5, <2>1
<1>8. \A s \in Slots : s \in Written' <=> s \in Written \ {e.slot}
  <2>1. \A s : ~Puts(y, s)
    BY <1>2, HasNothing
  <2>2. \A s \in Slots : s \in Written' <=> Puts(y, s) \/ \E u \in Threads : u # t /\ Puts(todo[u], s)
    BY <1>3, StackChanged
  <2>3. \A u \in Threads : Puts(todo[u], e.slot) <=> u = t
    BY <1>1, FinalGuarded
  <2>4. \A s \in Slots : s \in Written <=> \E u \in Threads : Puts(todo[u], s)
    BY DEF Written
  <2> QED BY <1>1, <2>1, <2>2, <2>3, <2>4
<1> QED BY <1>4, <1>5, <1>6, <1>7, <1>8 DEF e

\* The last step of an operation, which gives its variable what it is to hold.
LEMMA WrittenKeeps ==
    ASSUME IInv, NEW t \in Threads, todo[t] # <<>>, Tail(todo[t]) = <<>>, Head(todo[t]).do \in {"store", "take"},
           Continue(t, <<>>, id[t]), UNCHANGED <<live, count, tracked>>,
           rc' \in [Slots -> [ptr : Objects \cup {NULL}, id : Id]], NumbersSound',
           \A s \in Slots : s \notin uses[t] => rc'[s] = rc[s],
           \A o \in Objects : Cardinality({s \in Slots : s \notin Written \ {Head(todo[t]).slot} /\ rc'[s].ptr = o})
                + Cardinality(Giving(o) \ {t}) = Cardinality(Holding(o)) + Cardinality(Giving(o))
    PROVE  IInv'
<1> DEFINE e == Head(todo[t])
           w == e.slot
           Held(o) == {s \in Slots : s \notin Written \ {w} /\ rc'[s].ptr = o}
<1>1. /\ e = todo[t][1] /\ e \in Steps /\ Stack(<<>>)
      /\ todo' = [todo EXCEPT ![t] = <<>>] /\ uses' = [uses EXCEPT ![t] = {}]
      /\ uses' \in [Threads -> SUBSET Slots] /\ id' \in [Threads -> Id] /\ swapped' \in BOOLEAN
      /\ Writes(e) /\ Final(todo[t]) = e
      /\ \A s : Puts(todo[t], s) <=> (Writes(e) /\ e.slot = s) \/ Puts(<<>>, s)
      /\ \A s \in Slots : s \in Written' <=> Puts(<<>>, s) \/ \E u \in Threads : u # t /\ Puts(todo[u], s)
      /\ \A o : Has(todo[t], "free", o) <=> (e.do = "free" /\ e.obj = o) \/ Has(<<>>, "free", o)
      /\ \A u \in Threads : \A o : Has(todo'[u], "free", o) <=>
            IF u = t THEN Has(<<>>, "free", o) ELSE Has(todo[u], "free", o)
      /\ \A o : Dropping(o)' = Dropping(o)
      /\ \A o : Giving(o)' = Giving(o) \ {t}
  <2> DEFINE y == Tail(todo[t])
  <2>1. y = <<>>
    OBVIOUS
  <2>2. /\ e = todo[t][1] /\ e \in Steps /\ Stack(y)
        /\ todo' = [todo EXCEPT ![t] = y]
        /\ uses' = IF y = <<>> THEN [uses EXCEPT ![t] = {}] ELSE uses
        /\ uses' \in [Threads -> SUBSET Slots] /\ id' \in [Threads -> Id] /\ swapped' \in BOOLEAN
        /\ y = <<>> => Writes(e) /\ Final(todo[t]) = e
        /\ \A s : Puts(todo[t], s) <=> (Writes(e) /\ e.slot = s) \/ Puts(y, s)
        /\ \A s \in Slots : s \in Written' <=> Puts(y, s) \/ \E u \in Threads : u # t /\ Puts(todo[u], s)
        /\ \A o : Has(todo[t], "free", o) <=> (e.do = "free" /\ e.obj = o) \/ Has(y, "free", o)
        /\ \A u \in Threads : \A o : Has(todo'[u], "free", o) <=>
              IF u = t THEN Has(y, "free", o) ELSE Has(todo[u], "free", o)
        /\ \A o : Dropping(o)' = Dropping(o)
        /\ \A o : y = <<>> => Giving(o)' = Giving(o) \ {t}
    BY PopChanged
  <2> HIDE DEF y, e
  <2> QED BY <2>1, <2>2
<1>2. e.do \in {"store", "take"} /\ \A o \in Objects :
        Cardinality(Held(o)) + Cardinality(Giving(o) \ {t}) = Cardinality(Holding(o)) + Cardinality(Giving(o))
  OBVIOUS
<1> HIDE DEF e, Held
<1>3. /\ w \in Slots /\ w \in uses[t]
      /\ \A u \in Threads : Puts(todo[u], w) <=> u = t
  BY <1>1, FinalGuarded
<1>4. /\ uses \in [Threads -> SUBSET Slots] /\ uses'[t] = {}
      /\ \A u \in Threads : u # t => uses'[u] = uses[u]
  BY <1>1 DEF IInv, TypeOK
<1>5. \A u \in Threads : \A r \in uses'[u] : rc'[r] = rc[r]
  BY <1>4 DEF IInv, UsesSound
<1>6. Stacks' /\ UsesSound' /\ \A u \in Threads : RetainOf(u)'
  BY <1>1, <1>5, ThreadKeeps
<1>7. \A s \in Slots : s \in Written' <=> s \in Written \ {w}
  <2>1. \A s : ~Puts(<<>>, s)
    BY HasNothing
  <2>2. \A s \in Slots : s \in Written' <=> \E u \in Threads : u # t /\ Puts(todo[u], s)
    BY <1>1, <2>1
  <2>3. \A s : Puts(todo[t], s) <=> w = s
    BY <1>1, <2>1
  <2>4. \A s \in Slots : s \in Written <=> \E u \in Threads : Puts(todo[u], s)
    BY DEF Written
  <2> QED BY <1>3, <2>2, <2>3, <2>4
<1>8. \A u \in Threads : \A o : Has(todo'[u], "free", o) <=> Has(todo[u], "free", o)
  BY <1>1, <1>2
<1>9. ASSUME NEW o \in Objects
      PROVE  count'[o] = Cardinality(Holding(o)') + Cardinality(Dropping(o)') + Cardinality(Giving(o)')
  <2>1. \A s : s \in Holding(o)' <=> s \in Slots /\ s \notin Written' /\ rc'[s].ptr = o
    BY DEF Holding, Slots
  <2>2. \A s : s \in Holding(o)' <=> s \in Held(o)
    BY <1>7, <2>1 DEF Held
  <2>3. Holding(o)' = Held(o)
    BY <2>2
  <2>4. count[o] = Cardinality(Holding(o)) + Cardinality(Dropping(o)) + Cardinality(Giving(o))
    BY DEF IInv, CountsSound
  <2>5. IsFiniteSet(Held(o)) /\ Cardinality(Held(o)) \in Nat
    <3>1. IsFiniteSet(Slots)
      <4>1. IsFiniteSet(Owners)
        BY FS_Subset DEF IInv, RefAssumption
      <4> QED BY <4>1, FS_Union DEF IInv, RefAssumption, Slots
    <3>2. Held(o) \subseteq Slots
      BY DEF Held
    <3> QED BY <3>1, <3>2, FS_Subset, FS_CardinalityType
  <2>6. Cardinality(Giving(o) \ {t}) \in Nat
    BY Sizes, FS_Subset, FS_CardinalityType
  <2>7. Cardinality(Held(o)) + Cardinality(Giving(o) \ {t}) = Cardinality(Holding(o)) + Cardinality(Giving(o))
    BY <1>2
  <2>8. /\ Cardinality(Holding(o)') = Cardinality(Held(o)) /\ Cardinality(Dropping(o)') = Cardinality(Dropping(o))
        /\ Cardinality(Giving(o)') = Cardinality(Giving(o) \ {t}) /\ count'[o] = count[o]
    BY <1>1, <2>3
  <2>9. /\ Cardinality(Holding(o)) \in Nat /\ Cardinality(Dropping(o)) \in Nat
        /\ Cardinality(Giving(o)) \in Nat
    BY Sizes
  <2>10. Cardinality(Held(o)) + Cardinality(Dropping(o)) + Cardinality(Giving(o) \ {t}) = count[o]
    <3> DEFINE i == Cardinality(Holding(o))
               j == Cardinality(Dropping(o))
               k == Cardinality(Giving(o))
               l == Cardinality(Held(o))
               m == Cardinality(Giving(o) \ {t})
    <3>1. i \in Nat /\ j \in Nat /\ k \in Nat /\ l \in Nat /\ m \in Nat
      BY <2>5, <2>6, <2>9
    <3>2. count[o] = i + j + k /\ l + m = i + k
      BY <2>4, <2>7
    <3> HIDE DEF i, j, k, l, m
    <3>3. l + j + m = count[o]
      BY <3>1, <3>2
    <3> QED BY <3>3 DEF j, l, m
  <2> QED BY <2>8, <2>10
<1>10. CountsSound'
  BY <1>9 DEF CountsSound
<1>11. FreesSound'
  BY <1>8, FreesIs DEF IInv, FreesSound
<1>12. TypeOK'
  BY <1>1 DEF IInv, TypeOK
<1> QED BY <1>6, <1>10, <1>11, <1>12 DEF IInv, RefAssumption, Slots, Id

LEMMA ResultStoredKeeps ==
    ASSUME IInv, NEW t \in Threads, Stored(t), Tail(todo[t]) = <<>>
    PROVE  IInv'
<1> DEFINE e == Head(todo[t])
           w == e.slot
           p == e.ptr
           Held(o) == {s \in Slots : s \notin Written \ {w} /\ rc'[s].ptr = o}
<1>1. /\ todo[t] # <<>> /\ e.do = "store"
      /\ rc' = [rc EXCEPT ![w] = IF p = NULL THEN None ELSE [ptr |-> p, id |-> id[t]]]
      /\ Continue(t, <<>>, id[t]) /\ UNCHANGED <<live, count, tracked>>
  BY DEF Stored, Does
<1>2. e = todo[t][1] /\ e \in Steps /\ Final(todo[t]) = e
  BY <1>1, PopIs
<1> HIDE DEF e, Held
<1>3. w \in Slots /\ w \in uses[t] /\ w \in Written
  BY <1>1, <1>2, FinalGuarded DEF Written
<1>4. p \in Objects \cup {NULL} /\ id[t] \in Id /\ NULL \notin Objects /\ 0 \in Id
  BY <1>1, <1>2, StepIs DEF IInv, TypeOK, RefAssumption, Id
<1>5. rc \in [Slots -> [ptr : Objects \cup {NULL}, id : Id]] /\ None \in [ptr : Objects \cup {NULL}, id : Id]
  BY <1>4 DEF IInv, TypeOK, None
<1>6. /\ rc' \in [Slots -> [ptr : Objects \cup {NULL}, id : Id]]
      /\ rc'[w].ptr = p /\ \A s \in Slots : s # w => rc'[s] = rc[s]
  <2>1. CASE p = NULL
    BY <1>1, <1>3, <1>5, <2>1 DEF None
  <2>2. CASE p # NULL
    <3>1. [ptr |-> p, id |-> id[t]] \in [ptr : Objects \cup {NULL}, id : Id]
      BY <1>4
    <3> QED BY <1>1, <1>3, <1>5, <2>2, <3>1
  <2> QED BY <2>1, <2>2
<1>7. ASSUME NEW o \in Objects
      PROVE  Cardinality(Held(o)) + Cardinality(Giving(o) \ {t}) = Cardinality(Holding(o)) + Cardinality(Giving(o))
  <2>1. CASE o # p
    <3>1. Held(o) = Holding(o)
      BY <1>3, <1>6, <2>1 DEF Held, Holding
    <3>2. Giving(o) \ {t} = Giving(o)
      BY <1>1, <1>2, <2>1, GivingIs
    <3> QED BY <3>1, <3>2
  <2>2. CASE o = p
    <3>1. Held(o) = Holding(o) \cup {w} /\ w \notin Holding(o)
      BY <1>3, <1>6, <2>2 DEF Held, Holding
    <3>2. t \in Giving(o)
      BY <1>1, <1>2, <2>2, GivingIs
    <3>3. Cardinality(Held(o)) = Cardinality(Holding(o)) + 1
      BY <3>1, Sizes, FS_AddElement
    <3>4. Cardinality(Giving(o) \ {t}) = Cardinality(Giving(o)) - 1
      BY <3>2, Sizes, FS_RemoveElement
    <3> QED BY <3>3, <3>4, Sizes
  <2> QED BY <2>1, <2>2
<1>8. \A o \in Objects : Cardinality({s \in Slots : s \notin Written \ {Head(todo[t]).slot} /\ rc'[s].ptr = o})
                + Cardinality(Giving(o) \ {t}) = Cardinality(Holding(o)) + Cardinality(Giving(o))
  BY <1>7 DEF Held, e
<1>9. \A s \in Slots : s \notin uses[t] => rc'[s] = rc[s]
  BY <1>3, <1>6
<1>10. Head(todo[t]).do \in {"store", "take"}
  BY <1>1 DEF e
<1>11. NumbersSound'
  <2>1. /\ swapped' = swapped /\ \A u \in Threads : IdOf(u)'
        /\ \A s \in Slots : s \in Written' <=> s \in Written \ {w}
        /\ \A x, o, n : HoldsId(x, o, n)' <=>
              x \in Slots /\ x \notin Written' /\ rc'[x].ptr = o /\ rc'[x].id = n
        /\ \A x, o, n : DropsId(x, o, n)' <=> DropsId(x, o, n)
        /\ \A x, o, n : GivesId(x, o, n)' <=> GivesId(x, o, n) /\ x # t
    BY <1>1, <1>10, LastNumbers DEF e
  <2>2. \A o, n : GivesId(t, o, n) <=> p = o /\ id[t] = n
    BY <1>1, <1>2, KeepsIs
  <2>3. ASSUME ~swapped, NEW o \in Objects PROVE NumbersOf(o)'
    <3>1. tracked'[o] = tracked[o]
      BY <1>1
    <3>2. \A n : ~HoldsId(w, o, n)
      BY <1>3, KeepsIs
    <3>3. \A x, n : x # w => (HoldsId(x, o, n)' <=> HoldsId(x, o, n))
      BY <1>6, <2>1, KeepsIs
    <3>4. CASE o # p
      <4>1. \A x, n : x = w => ~HoldsId(x, o, n)'
        BY <1>6, <2>1, <3>4
      <4>2. \A n : ~GivesId(t, o, n)
        BY <2>2, <3>4
      <4>3. \A x, n : n # 0 => /\ HoldsId(x, o, n)' <=> HoldsId(x, o, n)
                               /\ DropsId(x, o, n)' <=> DropsId(x, o, n)
                               /\ GivesId(x, o, n)' <=> GivesId(x, o, n)
        BY <2>1, <3>2, <3>3, <4>1, <4>2
      <4> QED BY <2>3, <3>1, <4>3, NumbersStay
    <3>5. CASE o = p
      <4>1. rc'[w] = [ptr |-> p, id |-> id[t]]
        BY <1>1, <1>3, <1>4, <1>5, <3>5
      <4>2. PICK c, m : c = w /\ m = id[t]
        OBVIOUS
      <4>3. \A n : HoldsId(c, o, n)' <=> n = m
        BY <1>3, <2>1, <3>5, <4>1, <4>2
      <4>4. \A n : GivesId(t, o, n) <=> n = m
        BY <2>2, <3>5, <4>2
      <4>5. \A x, n : HoldsId(x, o, n)' <=> HoldsId(x, o, n) \/ (x = c /\ n = m)
        BY <3>2, <3>3, <4>2, <4>3
      <4>6. \A k, x, n : Keeps(k, x, o, n)' <=>
                (Keeps(k, x, o, n) /\ ~(k = "gives" /\ x = t)) \/ (k = "holds" /\ x = c /\ n = m)
        BY <2>1, <4>5 DEF Keeps
      <4>7. Keeps("gives", t, o, m) /\ \A n : Keeps("gives", t, o, n) => n = m
        BY <4>4 DEF Keeps
      <4>8. Moved(o, "gives", t, "holds", c, m)
        BY <4>6, <4>7 DEF Moved
      <4> QED BY <2>3, <3>1, <4>8, NumbersMove
    <3> QED BY <3>4, <3>5
  <2> QED BY <2>1, <2>3, NumbersNext
<1> QED BY <1>1, <1>6, <1>8, <1>9, <1>10, <1>11, WrittenKeeps

LEMMA TakenKeeps ==
    ASSUME IInv, NEW t \in Threads, Taken(t)
    PROVE  IInv'
<1> DEFINE e == Head(todo[t])
           w == e.slot
           q == e.src
           Held(o) == {s \in Slots : s \notin Written \ {w} /\ rc'[s].ptr = o}
<1>1. /\ todo[t] # <<>> /\ e.do = "take"
      /\ rc' = [rc EXCEPT ![w] = rc[q], ![q] = None]
      /\ Continue(t, Tail(todo[t]), id[t]) /\ UNCHANGED <<live, count, tracked>>
  BY DEF Taken, Does
<1>2. e = todo[t][1] /\ e \in Steps /\ Final(todo[t]) = e /\ Tail(todo[t]) = <<>>
  BY <1>1, PopIs DEF Fits
<1> HIDE DEF e, Held
<1>3. /\ w \in Slots /\ w \in uses[t] /\ w \in Written /\ q \in Slots /\ q \in uses[t]
      /\ q # w => q \notin Written
  BY <1>1, <1>2, FinalGuarded DEF Written
<1>4. NULL \notin Objects /\ 0 \in Id
  BY DEF IInv, RefAssumption, Id
<1>5. rc \in [Slots -> [ptr : Objects \cup {NULL}, id : Id]] /\ None \in [ptr : Objects \cup {NULL}, id : Id]
  BY <1>4 DEF IInv, TypeOK, None
<1>6. /\ rc' \in [Slots -> [ptr : Objects \cup {NULL}, id : Id]]
      /\ rc'[q].ptr = NULL /\ (q # w => rc'[w].ptr = rc[q].ptr)
      /\ \A s \in Slots : s # w /\ s # q => rc'[s] = rc[s]
  BY <1>1, <1>3, <1>5 DEF None
<1>7. ASSUME NEW o \in Objects
      PROVE  Cardinality(Held(o)) + Cardinality(Giving(o) \ {t}) = Cardinality(Holding(o)) + Cardinality(Giving(o))
  <2>1. Giving(o) \ {t} = Giving(o)
    BY <1>1, <1>2, GivingIs
  <2>2. CASE q = w \/ o # rc[q].ptr
    <3>1. Held(o) = Holding(o)
      BY <1>3, <1>4, <1>6, <2>2 DEF Held, Holding
    <3> QED BY <2>1, <3>1
  <2>3. CASE q # w /\ o = rc[q].ptr
    <3>1. Held(o) = (Holding(o) \ {q}) \cup {w} /\ w \notin Holding(o) \ {q} /\ q \in Holding(o)
      BY <1>3, <1>4, <1>6, <2>3 DEF Held, Holding
    <3>2. /\ IsFiniteSet(Holding(o) \ {q})
          /\ Cardinality(Holding(o) \ {q}) = Cardinality(Holding(o)) - 1
      BY <3>1, Sizes, FS_RemoveElement
    <3>3. Cardinality(Held(o)) = Cardinality(Holding(o) \ {q}) + 1
      BY <3>1, <3>2, FS_AddElement
    <3>4. Cardinality(Holding(o)) \in Nat /\ Cardinality(Giving(o)) \in Nat
      BY Sizes
    <3> QED BY <2>1, <3>2, <3>3, <3>4
  <2> QED BY <2>2, <2>3
<1>8. \A o \in Objects : Cardinality({s \in Slots : s \notin Written \ {Head(todo[t]).slot} /\ rc'[s].ptr = o})
                + Cardinality(Giving(o) \ {t}) = Cardinality(Holding(o)) + Cardinality(Giving(o))
  BY <1>7 DEF Held, e
<1>9. \A s \in Slots : s \notin uses[t] => rc'[s] = rc[s]
  BY <1>3, <1>6
<1>10. Head(todo[t]).do \in {"store", "take"}
  BY <1>1 DEF e
<1>11. NumbersSound'
  <2>1. /\ swapped' = swapped /\ \A u \in Threads : IdOf(u)'
        /\ \A s \in Slots : s \in Written' <=> s \in Written \ {w}
        /\ \A x, o, n : HoldsId(x, o, n)' <=>
              x \in Slots /\ x \notin Written' /\ rc'[x].ptr = o /\ rc'[x].id = n
        /\ \A x, o, n : DropsId(x, o, n)' <=> DropsId(x, o, n)
        /\ \A x, o, n : GivesId(x, o, n)' <=> GivesId(x, o, n) /\ x # t
    <3>1. Continue(t, <<>>, id[t])
      BY <1>1, <1>2
    <3> QED BY <1>1, <1>2, <1>10, <3>1, LastNumbers DEF e
  <2>2. \A x, o, n : GivesId(x, o, n)' <=> GivesId(x, o, n)
    BY <1>1, <1>2, <2>1, KeepsIs
  <2>3. ASSUME ~swapped, NEW o \in Objects PROVE NumbersOf(o)'
    <3>1. tracked'[o] = tracked[o] /\ o # NULL
      BY <1>1, <1>4
    <3>2. \A n : ~HoldsId(w, o, n)
      BY <1>3, KeepsIs
    <3>3. \A x, n : x # w /\ x # q => (HoldsId(x, o, n)' <=> HoldsId(x, o, n))
      BY <1>6, <2>1, KeepsIs
    <3>4. \A x, n : x = q => ~HoldsId(x, o, n)'
      BY <1>6, <2>1, <3>1
    <3>5. CASE q = w \/ o # rc[q].ptr
      <4>1. \A x, n : (x = q => ~HoldsId(x, o, n)) /\ (x = w => ~HoldsId(x, o, n)')
        BY <1>6, <2>1, <3>2, <3>4, <3>5, KeepsIs
      <4>2. \A x, n : n # 0 => /\ HoldsId(x, o, n)' <=> HoldsId(x, o, n)
                               /\ DropsId(x, o, n)' <=> DropsId(x, o, n)
                               /\ GivesId(x, o, n)' <=> GivesId(x, o, n)
        BY <2>1, <2>2, <3>2, <3>3, <3>4, <4>1
      <4> QED BY <2>3, <3>1, <4>2, NumbersStay
    <3>6. CASE q # w /\ o = rc[q].ptr
      <4>1. PICK c, d, m : c = w /\ d = q /\ m = rc[q].id
        OBVIOUS
      <4>2. rc'[w] = rc[q]
        BY <1>1, <1>3, <1>5, <3>6
      <4>3. \A n : HoldsId(c, o, n)' <=> n = m
        BY <1>3, <2>1, <3>6, <4>1, <4>2
      <4>4. \A n : HoldsId(d, o, n) <=> n = m
        BY <1>3, <3>6, <4>1, KeepsIs
      <4>5. \A x, n : HoldsId(x, o, n)' <=> (HoldsId(x, o, n) /\ x # d) \/ (x = c /\ n = m)
        BY <3>2, <3>3, <3>4, <3>6, <4>1, <4>3
      <4>6. \A k, x, n : Keeps(k, x, o, n)' <=>
                (Keeps(k, x, o, n) /\ ~(k = "holds" /\ x = d)) \/ (k = "holds" /\ x = c /\ n = m)
        BY <2>1, <2>2, <4>5 DEF Keeps
      <4>7. Keeps("holds", d, o, m) /\ \A n : Keeps("holds", d, o, n) => n = m
        BY <4>4 DEF Keeps
      <4>8. Moved(o, "holds", d, "holds", c, m)
        BY <4>6, <4>7 DEF Moved
      <4> QED BY <2>3, <3>1, <4>8, NumbersMove
    <3> QED BY <3>5, <3>6
  <2> QED BY <2>1, <2>3, NumbersNext
<1> QED BY <1>1, <1>2, <1>6, <1>8, <1>9, <1>10, <1>11, WrittenKeeps

\* The release of what a variable holds, and the write to it.
LEMMA ReplaceStack ==
    ASSUME IInv, NEW s \in Slots, NEW e \in Steps, Writes(e), e.slot = s
    PROVE  LET z == Release(rc[s]) \o <<e>>
           IN  /\ Release(rc[s]) \in Seq(Steps) /\ Stack(z) /\ z # <<>> /\ Final(z) = e
               /\ z[1].do \in {"untrack", "store", "take"}
               /\ \A o : ~Has(z, "free", o)
               /\ \A o : Has(z, "decrement", o) <=> rc[s].ptr # NULL /\ rc[s].ptr = o
               /\ \A x : Puts(z, x) <=> x = s
               /\ \A o, n : Forgets(z, o, n) <=> rc[s].ptr # NULL /\ rc[s].ptr = o /\ rc[s].id = n
<1>1. /\ Stack(<<e>>) /\ <<e>> # <<>> /\ Final(<<e>>) = e /\ <<e>>[1] = e /\ Len(<<e>>) = 1
      /\ \A o : ~Has(<<e>>, "free", o)
  BY StackOne
<1>2. \A i \in 1..Len(<<e>>) : <<e>>[i].do # "decrement"
  BY <1>1 DEF Writes
<1>3. \A x : Puts(<<e>>, x) <=> x = s
  BY <1>1 DEF Puts
<1>4. RefAssumption /\ rc[s] \in [ptr : Objects \cup {NULL}, id : Id]
  BY DEF IInv, TypeOK
<1> QED
  <2> DEFINE y == <<e>>
  <2>1. /\ Stack(y) /\ y # <<>> /\ Writes(y[1]) /\ \A i \in 1..Len(y) : y[i].do # "decrement"
        /\ Final(y) = e /\ (\A o : ~Has(y, "free", o)) /\ \A x : Puts(y, x) <=> x = s
    BY <1>1, <1>2, <1>3
  <2> HIDE DEF y
  <2>2. /\ Release(rc[s]) \in Seq(Steps) /\ Stack(Release(rc[s]) \o y) /\ Release(rc[s]) \o y # <<>>
        /\ Final(Release(rc[s]) \o y) = Final(y)
        /\ (Release(rc[s]) \o y)[1].do \in {"untrack", "store", "take"}
        /\ \A o : Has(Release(rc[s]) \o y, "free", o) <=> Has(y, "free", o)
        /\ \A o : Has(Release(rc[s]) \o y, "decrement", o) <=> rc[s].ptr # NULL /\ rc[s].ptr = o
        /\ \A x : Puts(Release(rc[s]) \o y, x) <=> Puts(y, x)
        /\ \A o, n : Forgets(Release(rc[s]) \o y, o, n) <=> rc[s].ptr # NULL /\ rc[s].ptr = o /\ rc[s].id = n
    BY <1>4, <2>1, ReleaseStack
  <2>3. y = <<e>>
    BY DEF y
  <2> QED BY <2>1, <2>2, <2>3

\* A retain in front of the rest of a copy.
LEMMA RetainStack ==
    ASSUME NEW p \in Objects, p # NULL, NEW y, Stack(y), y # <<>>, y[1].do \in {"untrack", "store", "take"},
           Final(y).do = "store", Final(y).ptr = p
    PROVE  LET z == Retain(p) \o y
           IN  /\ Retain(p) \in Seq(Steps) /\ Stack(z) /\ z # <<>> /\ Final(z) = Final(y)
               /\ z[1].do = "increment" /\ z[1].obj = p
               /\ \A o : Has(z, "free", o) <=> Has(y, "free", o)
               /\ \A o : Has(z, "decrement", o) <=> Has(y, "decrement", o)
               /\ \A s : Puts(z, s) <=> Puts(y, s)
               /\ \A o, n : Forgets(z, o, n) <=> Forgets(y, o, n)
<1> DEFINE d == [do |-> "increment", obj |-> p]
           u == [do |-> "track", obj |-> p]
           z1 == <<u>> \o y
           z2 == <<d>> \o z1
<1>1. y \in Seq(Steps)
  BY DEF Stack
<1>2. d \in Steps /\ u \in Steps /\ d.do = "increment" /\ d.obj = p /\ u.do = "track" /\ u.obj = p
  BY DEF Steps, Plain
<1>3. Retain(p) = <<d, u>>
  BY DEF Retain
<1> HIDE DEF u, d
<1>4. Fits(u, y)
  BY <1>2 DEF Fits
<1>5. /\ Stack(z1) /\ z1 \in Seq(Steps) /\ z1 # <<>> /\ z1[1] = u /\ Final(z1) = Final(y)
  BY <1>1, <1>2, <1>4, ConsIs, StackCons
<1>6. /\ \A o : Has(z1, "free", o) <=> Has(y, "free", o)
      /\ \A o : Has(z1, "decrement", o) <=> Has(y, "decrement", o)
      /\ \A s : Puts(z1, s) <=> Puts(y, s)
  <2>1. \A what, o : Has(z1, what, o) <=> (u.do = what /\ u.obj = o) \/ Has(y, what, o)
    BY <1>1, <1>2, HasCons
  <2>2. \A s : Puts(z1, s) <=> (Writes(u) /\ u.slot = s) \/ Puts(y, s)
    BY <1>1, <1>2, PutsCons
  <2>3. ~Writes(u)
    BY <1>2 DEF Writes
  <2> HIDE DEF z1
  <2> QED BY <1>1, <1>2, <2>1, <2>2, <2>3
<1>7. \A o, n : Forgets(z1, o, n) <=> Forgets(y, o, n)
  BY <1>1, <1>2, ForgetsCons
<1> HIDE DEF z1
<1>8. Fits(d, z1)
  BY <1>2, <1>5 DEF Fits
<1>9. /\ Stack(z2) /\ z2 # <<>> /\ z2[1] = d /\ Final(z2) = Final(y)
  BY <1>2, <1>5, <1>8, ConsIs, StackCons
<1>10. /\ \A o : Has(z2, "free", o) <=> Has(y, "free", o)
       /\ \A o : Has(z2, "decrement", o) <=> Has(y, "decrement", o)
       /\ \A s : Puts(z2, s) <=> Puts(y, s)
  <2>1. \A what, o : Has(z2, what, o) <=> (d.do = what /\ d.obj = o) \/ Has(z1, what, o)
    BY <1>2, <1>5, HasCons
  <2>2. \A s : Puts(z2, s) <=> (Writes(d) /\ d.slot = s) \/ Puts(z1, s)
    BY <1>2, <1>5, PutsCons
  <2>3. ~Writes(d)
    BY <1>2 DEF Writes
  <2> HIDE DEF z2
  <2> QED BY <1>2, <1>5, <1>6, <2>1, <2>2, <2>3
<1>11. \A o, n : Forgets(z2, o, n) <=> Forgets(y, o, n)
  BY <1>2, <1>5, <1>7, ForgetsCons
<1>12. <<d, u>> = <<d>> \o <<u>> /\ <<u>> \in Seq(Steps) /\ <<d>> \in Seq(Steps) /\ <<d, u>> \in Seq(Steps)
  <2> HIDE DEF z2
  <2>1. d \in Steps /\ u \in Steps
    BY <1>2
  <2>2. <<u>> \in Seq(Steps) /\ <<d>> \in Seq(Steps) /\ <<d, u>> \in Seq(Steps)
    BY <2>1
  <2>3. <<d, u>> = <<d>> \o <<u>>
    BY <2>1, PairIs
  <2> QED BY <2>2, <2>3
<1>13. Retain(p) \o y = z2
  <2>1. (<<d>> \o <<u>>) \o y = <<d>> \o (<<u>> \o y)
    BY <1>1, <1>12, ConcatAssociative
  <2> QED BY <1>3, <1>12, <2>1 DEF z1
<1> HIDE DEF z2
<1> QED BY <1>2, <1>3, <1>9, <1>10, <1>12, <1>13, <1>11

\* An operation begins: what its variable holds is about to be released.
LEMMA BeginKeeps ==
    ASSUME IInv, NEW t \in Threads, NEW z, NEW slots \in SUBSET Slots, NEW s \in Slots, Begin(t, z, slots),
           Stack(z), z # <<>>, Final(z).slot = s, s \notin Written,
           \A r \in slots : Free(r),
           \A o : ~Has(z, "free", o),
           \A o : Has(z, "decrement", o) <=> rc[s].ptr # NULL /\ rc[s].ptr = o,
           \A x : Puts(z, x) <=> x = s,
           \A o, n : Forgets(z, o, n) <=> rc[s].ptr # NULL /\ rc[s].ptr = o /\ rc[s].id = n,
           Final(z).do = "store" /\ Final(z).ptr # NULL => z[1].do = "increment",
           UsesOf(t)', RetainOf(t)'
    PROVE  IInv'
<1>1. /\ todo[t] = <<>> /\ todo' = [todo EXCEPT ![t] = z] /\ uses' = [uses EXCEPT ![t] = slots]
      /\ id' = [id EXCEPT ![t] = 0] /\ UNCHANGED <<live, count, tracked, rc, swapped>>
  BY DEF Begin
<1>2. /\ uses' \in [Threads -> SUBSET Slots] /\ id' \in [Threads -> Id]
      /\ uses'[t] = slots /\ (\A u \in Threads : u # t => uses'[u] = uses[u])
      /\ todo' \in [Threads -> Seq(Steps)] /\ todo'[t] = z /\ (\A u \in Threads : u # t => todo'[u] = todo[u])
  <2>1. 0 \in Id /\ z \in Seq(Steps)
    BY DEF Id, IInv, RefAssumption, Stack
  <2> QED BY <1>1, <2>1 DEF IInv, TypeOK, Stacks
<1>3. Stacks'
  <2>1. \A u \in Threads : Stack(todo'[u])
    BY <1>2 DEF IInv, Stacks
  <2> QED BY <1>2, <2>1, StacksNext
<1>4. ASSUME NEW u \in Threads PROVE UsesOf(u)' /\ RetainOf(u)'
  <2>1. CASE u = t
    BY <2>1
  <2>2. CASE u # t
    BY <1>1, <1>2, <2>2, OthersKeep
  <2> QED BY <2>1, <2>2
<1>5. UsesSound'
  <2>1. \A u, v \in Threads : \A r \in Slots : r \in uses[u] /\ r \in uses[v] => u = v
    BY DEF IInv, UsesSound
  <2>2. \A u \in Threads : \A r \in slots : r \notin uses[u]
    BY DEF Free
  <2>3. \A u, v \in Threads : \A r \in Slots : r \in uses'[u] /\ r \in uses'[v] => u = v
    <3> SUFFICES ASSUME NEW u \in Threads, NEW v \in Threads, NEW r \in Slots, r \in uses'[u], r \in uses'[v], u # v
                 PROVE  FALSE
      OBVIOUS
    <3>1. \A w \in Threads : r \in uses'[w] => (w = t /\ r \in slots) \/ (w # t /\ r \in uses[w])
      BY <1>2
    <3> QED BY <2>1, <2>2, <3>1
  <2> QED BY <1>4, <2>3 DEF UsesSound
<1>6. /\ \A u \in Threads : \A what, o : Has(todo'[u], what, o) <=>
                IF u = t THEN Has(z, what, o) ELSE Has(todo[u], what, o)
      /\ \A x \in Slots : x \in Written' <=> Puts(z, x) \/ \E u \in Threads : u # t /\ Puts(todo[u], x)
      /\ \A u, o : u \in Dropping(o)' <=> u \in Threads /\
                IF u = t THEN Has(z, "decrement", o) ELSE u \in Dropping(o)
      /\ \A u, o : u \in Giving(o)' <=> u \in Threads /\
                IF u = t THEN z # <<>> /\ Final(z).do = "store" /\ Final(z).ptr = o /\ z[1].do # "increment"
                ELSE u \in Giving(o)
  BY <1>1, StackChanged
<1>7. \A what, o, x : ~Has(todo[t], what, o) /\ ~Puts(todo[t], x)
  BY <1>1, HasNothing
<1>8. \A x \in Slots : x \in Written' <=> x \in Written \/ x = s
  <2>1. \A x \in Slots : x \in Written <=> \E u \in Threads : Puts(todo[u], x)
    BY DEF Written
  <2> QED BY <1>6, <1>7, <2>1
<1>9. \A u \in Threads : \A o : Has(todo'[u], "free", o) <=> Has(todo[u], "free", o)
  BY <1>6, <1>7
<1>10. ASSUME NEW o \in Objects
       PROVE  count'[o] = Cardinality(Holding(o)') + Cardinality(Dropping(o)') + Cardinality(Giving(o)')
  <2>1. o # NULL
    BY DEF IInv, RefAssumption
  <2>2. Giving(o)' = Giving(o)
    <3>1. \A u : u \in Giving(o)' <=> u \in Giving(o)
      BY <1>1, <1>6, <2>1, GivingIs
    <3> QED BY <3>1
  <2>3. \A x : x \in Holding(o)' <=> x \in Holding(o) /\ x # s
    <3>1. \A x : x \in Holding(o)' <=> x \in Slots /\ x \notin Written' /\ rc[x].ptr = o
      BY <1>1 DEF Holding, Slots
    <3> QED BY <1>8, <3>1 DEF Holding
  <2>4. \A u : u \in Dropping(o)' <=> u \in Dropping(o) \/ (u = t /\ rc[s].ptr = o)
    BY <1>6, <1>7, <2>1, DroppingIs
  <2>5. count'[o] = count[o]
    BY <1>1
  <2>6. CASE rc[s].ptr # o
    <3>1. \A x : x \in Holding(o)' <=> x \in Holding(o)
      BY <2>3, <2>6 DEF Holding
    <3>2. \A u : u \in Dropping(o)' <=> u \in Dropping(o)
      BY <2>4, <2>6
    <3>3. Holding(o)' = Holding(o) /\ Dropping(o)' = Dropping(o)
      BY <3>1, <3>2
    <3> QED BY <2>2, <2>5, <3>3, CountKept
  <2>7. CASE rc[s].ptr = o
    <3>1. Holding(o)' = Holding(o) \ {s} /\ s \in Holding(o)
      <4>1. s \in Holding(o)
        BY <2>7 DEF Holding
      <4> QED BY <2>3, <4>1
    <3>2. Dropping(o)' = Dropping(o) \cup {t} /\ t \notin Dropping(o)
      <4>1. t \notin Dropping(o)
        BY <1>7, DroppingIs
      <4>2. \A u : u \in Dropping(o)' <=> u \in Dropping(o) \/ u = t
        BY <2>4, <2>7
      <4> QED BY <4>1, <4>2
    <3>3. Cardinality(Holding(o)') = Cardinality(Holding(o)) - 1
      <4>1. IsFiniteSet(Holding(o))
        BY Sizes
      <4>2. Cardinality(Holding(o) \ {s}) = Cardinality(Holding(o)) - 1
        BY <3>1, <4>1, FS_RemoveElement
      <4> QED BY <3>1, <4>2
    <3>4. Cardinality(Dropping(o)') = Cardinality(Dropping(o)) + 1
      <4>1. IsFiniteSet(Dropping(o))
        BY Sizes
      <4>2. Cardinality(Dropping(o) \cup {t}) = Cardinality(Dropping(o)) + 1
        BY <3>2, <4>1, FS_AddElement
      <4> QED BY <3>2, <4>2
    <3>5. count[o] = Cardinality(Holding(o)) + Cardinality(Dropping(o)) + Cardinality(Giving(o))
      BY DEF IInv, CountsSound
    <3> QED BY <2>2, <2>5, <3>3, <3>4, <3>5, Sizes
  <2> QED BY <2>6, <2>7
<1>11. CountsSound'
  BY <1>10 DEF CountsSound
<1>12. FreesSound'
  BY <1>1, <1>9, FreesIs DEF IInv, FreesSound
<1>13. TypeOK'
  BY <1>1, <1>2 DEF IInv, TypeOK
<1>14. NumbersSound'
  <2>1. /\ \A x, o, n : HoldsId(x, o, n)' <=>
              x \in Slots /\ x \notin Written' /\ rc'[x].ptr = o /\ rc'[x].id = n
        /\ \A x, o, n : DropsId(x, o, n)' <=>
              x \in Threads /\ IF x = t THEN Forgets(z, o, n) ELSE DropsId(x, o, n)
        /\ \A x, o, n : GivesId(x, o, n)' <=>
              x \in Threads /\
              IF x = t THEN /\ z # <<>> /\ Final(z).do = "store" /\ Final(z).ptr = o
                            /\ z[1].do \notin {"increment", "track"} /\ 0 = n
              ELSE GivesId(x, o, n)
    <3>1. PICK v : v = 0
      OBVIOUS
    <3>2. todo' = [todo EXCEPT ![t] = z] /\ id' = [id EXCEPT ![t] = v]
      BY <1>1, <3>1
    <3>3. /\ \A x, o, n : HoldsId(x, o, n)' <=>
                x \in Slots /\ x \notin Written' /\ rc'[x].ptr = o /\ rc'[x].id = n
          /\ \A x, o, n : DropsId(x, o, n)' <=>
                x \in Threads /\ IF x = t THEN Forgets(z, o, n) ELSE DropsId(x, o, n)
          /\ \A x, o, n : GivesId(x, o, n)' <=>
                x \in Threads /\
                IF x = t THEN /\ z # <<>> /\ Final(z).do = "store" /\ Final(z).ptr = o
                              /\ z[1].do \notin {"increment", "track"} /\ v = n
                ELSE GivesId(x, o, n)
      BY <3>2, KeepsNext
    <3> QED BY <3>1, <3>3
  <2>2. \A u \in Threads : IdOf(u)'
    <3>1. id'[t] = 0 /\ \A u \in Threads : u # t => id'[u] = id[u]
      BY <1>1 DEF IInv, TypeOK
    <3>2. \A u \in Threads : IdOf(u)
      BY DEF IInv, NumbersSound
    <3>3. ASSUME NEW u \in Threads, u # t PROVE IdOf(u)'
      <4>1. id'[u] = id[u] /\ todo'[u] = todo[u]
        BY <1>2, <3>1, <3>3
      <4> QED BY <3>2, <4>1 DEF IdOf
    <3>4. IdOf(t)'
      BY <3>1 DEF IdOf
    <3> QED BY <3>3, <3>4
  <2>3. \A o, n : ~Forgets(todo[t], o, n)
    BY <1>1 DEF Forgets
  <2>4. ASSUME ~swapped, NEW o \in Objects PROVE NumbersOf(o)'
    <3>1. tracked'[o] = tracked[o] /\ o # NULL
      BY <1>1 DEF IInv, RefAssumption
    <3>2. \A x, n : HoldsId(x, o, n)' <=> HoldsId(x, o, n) /\ x # s
      BY <1>1, <1>8, <2>1, KeepsIs
    <3>3. \A x, n : GivesId(x, o, n)' <=> GivesId(x, o, n)
      BY <1>1, <2>1, <3>1, KeepsIs
    <3>4. \A x, n : DropsId(x, o, n)' <=>
                    DropsId(x, o, n) \/ (x = t /\ rc[s].ptr = o /\ n = rc[s].id)
      BY <2>1, <2>3, <3>1, KeepsIs
    <3>5. CASE rc[s].ptr # o
      <4>1. \A x, n : n # 0 => /\ HoldsId(x, o, n)' <=> HoldsId(x, o, n)
                               /\ DropsId(x, o, n)' <=> DropsId(x, o, n)
                               /\ GivesId(x, o, n)' <=> GivesId(x, o, n)
        BY <3>2, <3>3, <3>4, <3>5, KeepsIs
      <4> QED BY <2>4, <3>1, <4>1, NumbersStay
    <3>6. CASE rc[s].ptr = o
      <4>1. PICK m : m = rc[s].id
        OBVIOUS
      <4>2. \A n : HoldsId(s, o, n) <=> n = m
        BY <3>6, <4>1, KeepsIs
      <4>3. \A k, x, n : Keeps(k, x, o, n)' <=>
                (Keeps(k, x, o, n) /\ ~(k = "holds" /\ x = s)) \/ (k = "drops" /\ x = t /\ n = m)
        BY <3>2, <3>3, <3>4, <3>6, <4>1 DEF Keeps
      <4>4. Keeps("holds", s, o, m) /\ \A n : Keeps("holds", s, o, n) => n = m
        BY <4>2 DEF Keeps
      <4>5. Moved(o, "holds", s, "drops", t, m)
        BY <4>3, <4>4 DEF Moved
      <4> QED BY <2>4, <3>1, <4>5, NumbersMove
    <3> QED BY <3>5, <3>6
  <2> QED BY <1>1, <2>2, <2>4, NumbersNext
<1> QED BY <1>3, <1>4, <1>5, <1>11, <1>12, <1>13, <1>14 DEF IInv, RefAssumption, Slots, Id

\* A variable that a local of the operation's keeps, when the local is not the one written to.
LEMMA BeginKept ==
    ASSUME IInv, NEW t \in Threads, NEW z, NEW slots, Begin(t, z, slots), NEW x, NEW h \in slots, Reaches(h, x),
           x = h \/ h # Final(z).slot
    PROVE  Kept(t, x)'
<1>1. /\ todo' = [todo EXCEPT ![t] = z] /\ uses' = [uses EXCEPT ![t] = slots] /\ rc' = rc
  BY DEF Begin
<1>2. todo'[t] = z /\ uses'[t] = slots
  BY <1>1 DEF IInv, TypeOK, Stacks
<1>3. h \in Locals /\ (x = h \/ rc[h].ptr = x)
  BY DEF Reaches
<1>4. CASE x = h
  BY <1>3, <1>4 DEF Kept
<1>5. CASE x # h
  <2>1. h \in uses'[t] /\ rc'[h].ptr = x /\ h # Final(todo'[t]).slot
    BY <1>1, <1>2, <1>3, <1>5
  <2>2. Keeper(t, x)'
    BY <1>3, <2>1 DEF Keeper
  <2> QED BY <2>2 DEF Kept
<1> QED BY <1>4, <1>5

LEMMA ResetKeeps ==
    ASSUME IInv, NEW t \in Threads, NEW s \in Slots, Reset(t, s)
    PROVE  IInv'
<1> DEFINE e == [do |-> "store", slot |-> s, ptr |-> NULL]
           z == Release(rc[s]) \o <<e>>
<1>1. PICK h \in Locals : Reaches(h, s) /\ Begin(t, z, {h, s})
  BY DEF Reset, ResetSteps, Store
<1>2. e \in Steps /\ e.do = "store" /\ e.slot = s /\ e.ptr = NULL
  BY DEF Steps, Stores
<1> HIDE DEF e
<1>3. /\ Stack(z) /\ z # <<>> /\ Final(z) = e
      /\ z[1].do \in {"untrack", "store", "take"}
      /\ \A o : ~Has(z, "free", o)
      /\ \A o : Has(z, "decrement", o) <=> rc[s].ptr # NULL /\ rc[s].ptr = o
      /\ \A x : Puts(z, x) <=> x = s
      /\ \A o, n : Forgets(z, o, n) <=> rc[s].ptr # NULL /\ rc[s].ptr = o /\ rc[s].id = n
  BY <1>2, ReplaceStack DEF Writes
<1> HIDE DEF z
<1>4. s \notin Written /\ {h, s} \in SUBSET Slots /\ \A r \in {h, s} : Free(r)
  BY <1>1, FreeUnwritten DEF Reaches
<1>5. todo'[t] = z /\ uses'[t] = {h, s}
  BY <1>1 DEF Begin, IInv, TypeOK, Stacks
<1>6. Kept(t, s)'
  BY <1>1, <1>2, <1>3, BeginKept
<1>7. UsesOf(t)'
  BY <1>2, <1>3, <1>5, <1>6 DEF UsesOf
<1>8. RetainOf(t)'
  BY <1>3, <1>5 DEF RetainOf
<1> QED BY <1>1, <1>2, <1>3, <1>4, <1>7, <1>8, BeginKeeps

LEMMA MoveKeeps ==
    ASSUME IInv, NEW t \in Threads, NEW s \in Slots, NEW src \in Slots, Move(t, s, src)
    PROVE  IInv'
<1> DEFINE e == [do |-> "take", slot |-> s, src |-> src]
           z == Release(rc[s]) \o <<e>>
<1>1. PICK h \in Locals, k \in Locals :
        Reaches(h, s) /\ Reaches(k, src) /\ (k = s => src = s) /\ Begin(t, z, {h, s, k, src})
  BY DEF Move, MoveSteps, Take
<1>2. e \in Steps /\ e.do = "take" /\ e.slot = s /\ e.src = src
  BY DEF Steps, Takes
<1> HIDE DEF e
<1>3. /\ Stack(z) /\ z # <<>> /\ Final(z) = e
      /\ z[1].do \in {"untrack", "store", "take"}
      /\ \A o : ~Has(z, "free", o)
      /\ \A o : Has(z, "decrement", o) <=> rc[s].ptr # NULL /\ rc[s].ptr = o
      /\ \A x : Puts(z, x) <=> x = s
      /\ \A o, n : Forgets(z, o, n) <=> rc[s].ptr # NULL /\ rc[s].ptr = o /\ rc[s].id = n
  BY <1>2, ReplaceStack DEF Writes
<1> HIDE DEF z
<1>4. s \notin Written /\ {h, s, k, src} \in SUBSET Slots /\ \A r \in {h, s, k, src} : Free(r)
  BY <1>1, FreeUnwritten DEF Reaches
<1>5. todo'[t] = z /\ uses'[t] = {h, s, k, src}
  BY <1>1 DEF Begin, IInv, TypeOK, Stacks
<1>6. Kept(t, s)'
  BY <1>1, <1>2, <1>3, BeginKept
<1>7. Kept(t, src)'
  BY <1>1, <1>2, <1>3, BeginKept
<1>8. UsesOf(t)'
  BY <1>2, <1>3, <1>5, <1>6, <1>7 DEF UsesOf
<1>9. RetainOf(t)'
  BY <1>3, <1>5 DEF RetainOf
<1> QED BY <1>1, <1>2, <1>3, <1>4, <1>8, <1>9, BeginKeeps

\* A copy retains what it is to hold before it releases what it holds.
LEMMA CopyKeeps ==
    ASSUME IInv, NEW t \in Threads, NEW s \in Slots, NEW src \in Slots, Copy(t, s, src)
    PROVE  IInv'
<1> DEFINE p == rc[src].ptr
           e == [do |-> "store", slot |-> s, ptr |-> p]
           y == Release(rc[s]) \o <<e>>
           z == CopySteps(s, src)
<1>1. PICK h \in Locals, k \in Locals :
        Reaches(h, s) /\ Reaches(k, src) /\ Begin(t, z, {h, s, k, src})
  BY DEF Copy
<1>2. p \in Objects \cup {NULL} /\ NULL \notin Objects
  BY DEF IInv, TypeOK, RefAssumption
<1> HIDE DEF p
<1>3. e \in Steps /\ e.do = "store" /\ e.slot = s /\ e.ptr = p
  BY <1>2 DEF Steps, Stores
<1> HIDE DEF e
<1>4. /\ Release(rc[s]) \in Seq(Steps) /\ Stack(y) /\ y # <<>> /\ Final(y) = e
      /\ y[1].do \in {"untrack", "store", "take"}
      /\ \A o : ~Has(y, "free", o)
      /\ \A o : Has(y, "decrement", o) <=> rc[s].ptr # NULL /\ rc[s].ptr = o
      /\ \A x : Puts(y, x) <=> x = s
      /\ \A o, n : Forgets(y, o, n) <=> rc[s].ptr # NULL /\ rc[s].ptr = o /\ rc[s].id = n
  BY <1>3, ReplaceStack DEF Writes
<1>5. z = (Retain(p) \o Release(rc[s])) \o <<e>>
  BY DEF CopySteps, Store, p, e
<1> HIDE DEF y, z
<1>6. /\ Stack(z) /\ z # <<>> /\ Final(z) = e
      /\ \A o : ~Has(z, "free", o)
      /\ \A o : Has(z, "decrement", o) <=> rc[s].ptr # NULL /\ rc[s].ptr = o
      /\ \A x : Puts(z, x) <=> x = s
      /\ \A o, n : Forgets(z, o, n) <=> rc[s].ptr # NULL /\ rc[s].ptr = o /\ rc[s].id = n
      /\ p = NULL => z[1].do # "increment"
      /\ p # NULL => z[1].do = "increment" /\ z[1].obj = p
  <2>1. CASE p = NULL
    <3>1. Retain(p) \o Release(rc[s]) = Release(rc[s])
      BY <1>4, <2>1, ConcatEmptySeq DEF Retain
    <3>2. z = y
      BY <1>5, <3>1 DEF y
    <3> QED BY <1>4, <2>1, <3>2
  <2>2. CASE p # NULL
    <3>1. p \in Objects
      BY <1>2, <2>2
    <3>2. /\ Retain(p) \in Seq(Steps) /\ Stack(Retain(p) \o y) /\ Retain(p) \o y # <<>>
          /\ Final(Retain(p) \o y) = Final(y)
          /\ (Retain(p) \o y)[1].do = "increment" /\ (Retain(p) \o y)[1].obj = p
          /\ \A o : Has(Retain(p) \o y, "free", o) <=> Has(y, "free", o)
          /\ \A o : Has(Retain(p) \o y, "decrement", o) <=> Has(y, "decrement", o)
          /\ \A x : Puts(Retain(p) \o y, x) <=> Puts(y, x)
          /\ \A o, n : Forgets(Retain(p) \o y, o, n) <=> Forgets(y, o, n)
      BY <1>3, <1>4, <2>2, <3>1, RetainStack
    <3>3. z = Retain(p) \o y
      <4>1. <<e>> \in Seq(Steps)
        BY <1>3
      <4> QED BY <1>4, <1>5, <3>2, <4>1, ConcatAssociative DEF y
    <3> QED BY <1>4, <2>2, <3>2, <3>3
  <2> QED BY <2>1, <2>2
<1>7. s \notin Written /\ {h, s, k, src} \in SUBSET Slots /\ \A r \in {h, s, k, src} : Free(r)
  BY <1>1, FreeUnwritten DEF Reaches
<1>8. todo'[t] = z /\ uses'[t] = {h, s, k, src} /\ rc' = rc
  BY <1>1 DEF Begin, IInv, TypeOK, Stacks
<1>9. Kept(t, s)'
  BY <1>1, <1>3, <1>6, BeginKept
<1>10. UsesOf(t)'
  BY <1>3, <1>6, <1>8, <1>9 DEF UsesOf
<1>11. ASSUME p # NULL
       PROVE  \/ Has(z, "decrement", p)
              \/ src # s /\ (Kept(t, src)' \/ Has(z, "decrement", src))
  <2>1. CASE src = s
    BY <1>6, <1>11, <2>1 DEF p
  <2>2. CASE src # s /\ (src = k \/ k # s)
    BY <1>1, <1>3, <1>6, <2>2, BeginKept
  <2>3. CASE src # s /\ src # k /\ k = s
    <3>1. rc[s].ptr = src
      BY <1>1, <2>3 DEF Reaches
    <3>2. CASE src \in Locals
      BY <2>3, <3>2 DEF Kept
    <3>3. CASE src \notin Locals
      <4>1. src # NULL
        BY <3>3 DEF Slots, IInv, RefAssumption
      <4> QED BY <1>6, <2>3, <3>1, <4>1
    <3> QED BY <3>2, <3>3
  <2> QED BY <2>1, <2>2, <2>3
<1>12. RetainOf(t)'
  <2>1. SUFFICES ASSUME todo'[t][1].do = "increment"
                 PROVE  \/ Has(todo'[t], "decrement", todo'[t][1].obj)
                        \/ \E r \in uses'[t] : /\ rc'[r].ptr = todo'[t][1].obj /\ r # Final(todo'[t]).slot
                                               /\ Kept(t, r)' \/ Has(todo'[t], "decrement", r)
    BY DEF RetainOf, Has
  <2>2. p # NULL /\ todo'[t][1].obj = p
    BY <1>6, <1>8, <2>1
  <2>3. Final(todo'[t]).slot = s /\ rc'[src].ptr = p /\ src \in uses'[t]
    BY <1>3, <1>6, <1>8 DEF p
  <2> QED BY <1>8, <1>11, <2>2, <2>3
<1> QED BY <1>1, <1>3, <1>6, <1>7, <1>10, <1>12, BeginKeeps

\* What stays when no thread's steps change.
LEMMA IdleKeeps ==
    ASSUME IInv, todo' = todo, uses' = uses,
           \A u \in Threads : \A r \in uses[u] : rc'[r].ptr = rc[r].ptr
    PROVE  /\ Stacks' /\ UsesSound' /\ (\A u \in Threads : RetainOf(u)') /\ Written' = Written
           /\ \A o : Dropping(o)' = Dropping(o) /\ Giving(o)' = Giving(o)
           /\ id' = id =>
                /\ \A u \in Threads : IdOf(u)'
                /\ \A x, o, n : /\ HoldsId(x, o, n)' <=>
                                     x \in Slots /\ x \notin Written /\ rc'[x].ptr = o /\ rc'[x].id = n
                                /\ DropsId(x, o, n)' <=> DropsId(x, o, n)
                                /\ GivesId(x, o, n)' <=> GivesId(x, o, n)
<1>1. Stacks'
  BY DEF IInv, Stacks, Stack, Place, Writes
<1>2. \A u \in Threads : UsesOf(u)' /\ RetainOf(u)'
  <2> SUFFICES ASSUME NEW u \in Threads PROVE UsesOf(u)' /\ RetainOf(u)'
    OBVIOUS
  <2>1. todo'[u] = todo[u] /\ uses'[u] = uses[u]
    OBVIOUS
  <2> QED BY <2>1, OthersKeep
<1>3. UsesSound'
  BY <1>2 DEF IInv, UsesSound
<1>4. Written' = Written
  BY DEF Written, Puts, Writes, Slots
<1>5. \A o : Dropping(o)' = Dropping(o) /\ Giving(o)' = Giving(o)
  BY DEF Dropping, Has, Giving, Storing, Final
<1>6. ASSUME id' = id PROVE \A u \in Threads : IdOf(u)'
  BY <1>6 DEF IdOf, IInv, NumbersSound
<1>7. \A x, o, n : HoldsId(x, o, n)' <=>
            x \in Slots /\ x \notin Written /\ rc'[x].ptr = o /\ rc'[x].id = n
  BY <1>4 DEF HoldsId, Holding, Slots
<1>8. \A x, o, n : DropsId(x, o, n)' <=> DropsId(x, o, n)
  BY DEF DropsId, Forgets
<1>9. ASSUME id' = id PROVE \A x, o, n : GivesId(x, o, n)' <=> GivesId(x, o, n)
  BY <1>9 DEF GivesId, Giving, Storing, Final
<1> QED BY <1>1, <1>2, <1>3, <1>4, <1>5, <1>6, <1>7, <1>8, <1>9

\* The first reference to a new object is the variable's that it is created for.
LEMMA CreateKeeps ==
    ASSUME IInv, NEW t \in Threads, NEW s \in Slots, NEW o \in Objects, Create(t, s, o)
    PROVE  IInv'
<1>1. /\ s \in Locals /\ Free(s) /\ rc[s].ptr = NULL /\ o \notin live
      /\ live' = live \cup {o} /\ count' = [count EXCEPT ![o] = 1]
      /\ rc' = [rc EXCEPT ![s] = [ptr |-> o, id |-> 0]]
      /\ UNCHANGED <<tracked, todo, id, uses, swapped>>
  BY DEF Create
<1>2. Reaches(s, s)
  BY <1>1 DEF Reaches
<1>3. s \notin Written
  BY <1>2, FreeUnwritten
<1>4. /\ rc \in [Slots -> [ptr : Objects \cup {NULL}, id : Id]]
      /\ [ptr |-> o, id |-> 0] \in [ptr : Objects \cup {NULL}, id : Id]
  BY DEF IInv, TypeOK, Id, RefAssumption
<1>5. /\ rc' \in [Slots -> [ptr : Objects \cup {NULL}, id : Id]]
      /\ rc'[s].ptr = o /\ \A r \in Slots : r # s => rc'[r] = rc[r]
  BY <1>1, <1>4
<1>6. /\ count[o] = 0 /\ count' \in [Objects -> Nat] /\ count'[o] = 1
      /\ \A p \in Objects : p # o => count'[p] = count[p]
  BY <1>1 DEF IInv, TypeOK, FreesSound
<1>7. \A u \in Threads : \A r \in uses[u] : rc'[r].ptr = rc[r].ptr
  BY <1>1, <1>5 DEF Free, IInv, TypeOK
<1>8. /\ Stacks' /\ UsesSound' /\ (\A u \in Threads : RetainOf(u)') /\ Written' = Written
      /\ \A p : Dropping(p)' = Dropping(p) /\ Giving(p)' = Giving(p)
      /\ \A u \in Threads : IdOf(u)'
      /\ \A x, p, n : /\ HoldsId(x, p, n)' <=>
                           x \in Slots /\ x \notin Written /\ rc'[x].ptr = p /\ rc'[x].id = n
                      /\ DropsId(x, p, n)' <=> DropsId(x, p, n)
                      /\ GivesId(x, p, n)' <=> GivesId(x, p, n)
  BY <1>1, <1>7, IdleKeeps
<1>9. ASSUME NEW p \in Objects
      PROVE  count'[p] = Cardinality(Holding(p)') + Cardinality(Dropping(p)') + Cardinality(Giving(p)')
  <2>1. \A r : r \in Holding(p)' <=> r \in Slots /\ r \notin Written /\ rc'[r].ptr = p
    BY <1>8 DEF Holding, Slots
  <2>2. p # NULL
    BY DEF IInv, RefAssumption
  <2>3. CASE p # o
    <3>1. \A r : r \in Holding(p)' <=> r \in Holding(p)
      BY <1>1, <1>5, <2>1, <2>2, <2>3 DEF Holding
    <3>2. Holding(p)' = Holding(p)
      BY <3>1
    <3> QED BY <1>6, <1>8, <2>3, <3>2, CountKept
  <2>4. CASE p = o
    <3>1. Holding(p)' = Holding(p) \cup {s} /\ s \notin Holding(p)
      <4>1. s \notin Holding(p)
        BY <1>1, <2>2 DEF Holding
      <4>2. \A r : r \in Holding(p)' <=> r \in Holding(p) \/ r = s
        BY <1>3, <1>5, <2>1, <2>4 DEF Holding
      <4> QED BY <4>1, <4>2
    <3>2. IsFiniteSet(Holding(p))
      BY Sizes
    <3>3. Cardinality(Holding(p) \cup {s}) = Cardinality(Holding(p)) + 1
      BY <3>1, <3>2, FS_AddElement
    <3>4. count[p] = Cardinality(Holding(p)) + Cardinality(Dropping(p)) + Cardinality(Giving(p))
      BY DEF IInv, CountsSound
    <3>5. Cardinality(Holding(p)') = Cardinality(Holding(p)) + 1
      BY <3>1, <3>3
    <3> QED BY <1>6, <1>8, <2>4, <3>4, <3>5, Sizes
  <2> QED BY <2>3, <2>4
<1>10. CountsSound'
  BY <1>9 DEF CountsSound
<1>11. FreesSound'
  <2>1. \A p \in Objects : p \in live /\ count[p] = 0 <=> \E u \in Threads : Has(todo[u], "free", p)
    BY DEF IInv, FreesSound
  <2>2. \A p \in Objects : p \in live' /\ count'[p] = 0 <=> \E u \in Threads : Has(todo'[u], "free", p)
    BY <1>1, <1>6, <2>1
  <2>3. \A p \in Objects : p \notin live' => count'[p] = 0
    BY <1>1, <1>6 DEF IInv, FreesSound
  <2>4. \A u, v \in Threads : \A p \in Objects :
            Has(todo'[u], "free", p) /\ Has(todo'[v], "free", p) => u = v
    BY <1>1 DEF IInv, FreesSound
  <2> QED BY <2>2, <2>3, <2>4, FreesIs
<1>12. TypeOK'
  BY <1>1, <1>5, <1>6 DEF IInv, TypeOK
<1>13. NumbersSound'
  <2>1. rc'[s].id = 0
    BY <1>1, <1>4
  <2>2. ASSUME NEW p \in Objects, NEW x, NEW n, n # 0 PROVE HoldsId(x, p, n)' <=> HoldsId(x, p, n)
    <3>1. p # NULL
      BY DEF IInv, RefAssumption
    <3>2. CASE x = s
      BY <1>1, <1>8, <2>1, <2>2, <3>1, <3>2, KeepsIs
    <3>3. CASE x # s
      BY <1>5, <1>8, <3>3, KeepsIs
    <3> QED BY <3>2, <3>3
  <2> QED BY <1>1, <1>8, <2>2, AllStay
<1> QED BY <1>8, <1>10, <1>11, <1>12, <1>13 DEF IInv, RefAssumption, Slots, Id

LEMMA SwapKeeps ==
    ASSUME IInv, NEW t \in Threads, NEW s \in Slots, NEW src \in Slots, Swap(t, s, src)
    PROVE  IInv'
<1> DEFINE a == rc[s].ptr
           b == rc[src].ptr
<1>1. /\ a # b /\ rc' = [rc EXCEPT ![s].ptr = b, ![src].ptr = a] /\ swapped' = TRUE
      /\ UNCHANGED <<live, count, tracked, todo, id, uses>>
  BY DEF Swap
<1>2. PICK h \in Locals, k \in Locals : Reaches(h, s) /\ Reaches(k, src)
  BY DEF Swap
<1>3. s \notin Written /\ src \notin Written /\ Free(s) /\ Free(src) /\ s # src
  BY <1>1, <1>2, FreeUnwritten DEF Reaches
<1>4. rc \in [Slots -> [ptr : Objects \cup {NULL}, id : Id]]
  BY DEF IInv, TypeOK
<1>5. /\ rc' \in [Slots -> [ptr : Objects \cup {NULL}, id : Id]]
      /\ rc'[s].ptr = b /\ rc'[src].ptr = a /\ \A r \in Slots : r # s /\ r # src => rc'[r] = rc[r]
  BY <1>1, <1>3, <1>4
<1>6. \A u \in Threads : \A r \in uses[u] : rc'[r].ptr = rc[r].ptr
  BY <1>3, <1>5 DEF Free, IInv, TypeOK
<1>7. /\ Stacks' /\ UsesSound' /\ (\A u \in Threads : RetainOf(u)') /\ Written' = Written
      /\ \A o : Dropping(o)' = Dropping(o) /\ Giving(o)' = Giving(o)
      /\ \A u \in Threads : IdOf(u)'
  BY <1>1, <1>6, IdleKeeps
<1>8. ASSUME NEW o \in Objects
      PROVE  count'[o] = Cardinality(Holding(o)') + Cardinality(Dropping(o)') + Cardinality(Giving(o)')
  <2>1. \A r : r \in Holding(o)' <=> r \in Slots /\ r \notin Written /\ rc'[r].ptr = o
    BY <1>7 DEF Holding, Slots
  <2>2. /\ a = o <=> s \in Holding(o)
        /\ b = o <=> src \in Holding(o)
    BY <1>3 DEF Holding
  <2>3. Cardinality(Holding(o)') = Cardinality(Holding(o))
    <3>1. CASE o # a /\ o # b
      <4>1. \A r : r \in Holding(o)' <=> r \in Holding(o)
        BY <1>5, <2>1, <3>1 DEF Holding
      <4>2. Holding(o)' = Holding(o)
        BY <4>1
      <4> QED BY <4>2
    <3>2. CASE o = a
      <4>1. s \in Holding(o) /\ src \notin Holding(o)
        BY <1>1, <2>2, <3>2
      <4>2. \A r : r \in Holding(o)' <=> (r \in Holding(o) /\ r # s) \/ r = src
        BY <1>1, <1>3, <1>5, <2>1, <3>2 DEF Holding
      <4> HIDE DEF a, b
      <4>3. Holding(o)' = (Holding(o) \ {s}) \cup {src} /\ src \notin Holding(o) \ {s}
        BY <4>1, <4>2
      <4>4. IsFiniteSet(Holding(o) \ {s}) /\ Cardinality(Holding(o) \ {s}) = Cardinality(Holding(o)) - 1
        BY <4>1, Sizes, FS_RemoveElement
      <4>5. Cardinality((Holding(o) \ {s}) \cup {src}) = Cardinality(Holding(o) \ {s}) + 1
        BY <4>3, <4>4, FS_AddElement
      <4>6. Cardinality(Holding(o)') = Cardinality((Holding(o) \ {s}) \cup {src})
        BY <4>3
      <4> QED BY <4>4, <4>5, <4>6, Sizes
    <3>3. CASE o = b
      <4>1. src \in Holding(o) /\ s \notin Holding(o)
        BY <1>1, <2>2, <3>3
      <4>2. \A r : r \in Holding(o)' <=> (r \in Holding(o) /\ r # src) \/ r = s
        BY <1>1, <1>3, <1>5, <2>1, <3>3 DEF Holding
      <4> HIDE DEF a, b
      <4>3. Holding(o)' = (Holding(o) \ {src}) \cup {s} /\ s \notin Holding(o) \ {src}
        BY <4>1, <4>2
      <4>4. IsFiniteSet(Holding(o) \ {src}) /\ Cardinality(Holding(o) \ {src}) = Cardinality(Holding(o)) - 1
        BY <4>1, Sizes, FS_RemoveElement
      <4>5. Cardinality((Holding(o) \ {src}) \cup {s}) = Cardinality(Holding(o) \ {src}) + 1
        BY <4>3, <4>4, FS_AddElement
      <4>6. Cardinality(Holding(o)') = Cardinality((Holding(o) \ {src}) \cup {s})
        BY <4>3
      <4> QED BY <4>4, <4>5, <4>6, Sizes
    <3> QED BY <3>1, <3>2, <3>3
  <2>4. count[o] = Cardinality(Holding(o)) + Cardinality(Dropping(o)) + Cardinality(Giving(o))
    BY DEF IInv, CountsSound
  <2> QED BY <1>1, <1>7, <2>3, <2>4
<1>9. CountsSound'
  BY <1>8 DEF CountsSound
<1>10. FreesSound'
  BY <1>1, FreesIs DEF IInv, FreesSound
<1>11. TypeOK'
  BY <1>1, <1>5 DEF IInv, TypeOK
<1>12. NumbersSound'
  BY <1>1, <1>7, NumbersNext
<1> QED BY <1>7, <1>9, <1>10, <1>11, <1>12 DEF IInv, RefAssumption, Slots, Id

LEMMA InitSound ==
    ASSUME RefAssumption, Init
    PROVE  IInv
<1>1. \A t \in Threads : todo[t] = <<>> /\ uses[t] = {}
  BY DEF Init
<1>2. TypeOK
  <2>1. 0 \in Id
    BY DEF Id, RefAssumption
  <2>2. None \in [ptr : Objects \cup {NULL}, id : Id]
    BY <2>1 DEF None
  <2>3. rc \in [Slots -> [ptr : Objects \cup {NULL}, id : Id]]
    BY <2>2 DEF Init
  <2>4. live \subseteq Objects /\ count \in [Objects -> Nat] /\ tracked \in [Objects -> SUBSET Id]
    BY DEF Init
  <2>5. id \in [Threads -> Id] /\ uses \in [Threads -> SUBSET Slots] /\ swapped \in BOOLEAN
    BY <2>1 DEF Init
  <2> QED BY <2>3, <2>4, <2>5 DEF TypeOK
<1>3. Stacks
  BY <1>1, StackEmpty DEF Init, Stacks
<1>4. UsesSound /\ \A t \in Threads : RetainOf(t)
  BY <1>1 DEF UsesSound, UsesOf, RetainOf
<1>5. FreesSound
  BY <1>1, HasNothing DEF Init, FreesSound
<1>6. CountsSound
  <2> SUFFICES ASSUME NEW o \in Objects
               PROVE  count[o] = Cardinality(Holding(o)) + Cardinality(Dropping(o)) + Cardinality(Giving(o))
    BY DEF CountsSound
  <2>1. Holding(o) = {}
    BY DEF Holding, Init, None, RefAssumption
  <2>2. Dropping(o) = {} /\ Giving(o) = {}
    BY <1>1, HasNothing DEF Dropping, Giving, Storing
  <2>3. count[o] = 0
    BY DEF Init
  <2> QED BY <2>1, <2>2, <2>3, FS_EmptySet
<1>7. NumbersSound
  <2>1. \A x, o, n : ~DropsId(x, o, n) /\ ~GivesId(x, o, n)
    BY <1>1 DEF DropsId, Forgets, GivesId, Giving, Storing
  <2>2. \A o \in Objects : \A x, n : ~HoldsId(x, o, n)
    BY DEF HoldsId, Holding, Init, None, RefAssumption
  <2>3. ASSUME NEW o \in Objects PROVE NumbersOf(o)
    <3>1. \A k, x, n : ~Keeps(k, x, o, n)
      BY <2>1, <2>2 DEF Keeps
    <3>2. tracked[o] = {}
      BY DEF Init
    <3> QED BY <3>1, <3>2 DEF NumbersOf
  <2>4. \A t \in Threads : IdOf(t)
    BY DEF Init, IdOf
  <2> QED BY <2>3, <2>4 DEF NumbersSound
<1> QED BY <1>2, <1>3, <1>4, <1>5, <1>6, <1>7 DEF IInv

LEMMA StepKeeps ==
    ASSUME IInv, [Next]_vars
    PROVE  IInv'
<1>1. CASE Next
  <2>1. PICK t \in Threads :
            \/ Step(t)
            \/ \E s \in Slots :
                 \/ \E o \in Objects : Create(t, s, o)
                 \/ Reset(t, s)
                 \/ \E src \in Slots : Copy(t, s, src) \/ Move(t, s, src) \/ Swap(t, s, src)
    BY <1>1 DEF Next
  <2>2. CASE Step(t)
    <3>1. CASE Increment(t)
      BY <3>1, IncrementKeeps
    <3>2. CASE Track(t) \/ Untrack(t)
      BY <3>2, TrackKeeps
    <3>3. CASE Decrement(t)
      BY <3>3, DecrementKeeps
    <3>4. CASE Stored(t)
      BY <3>4, MemberStoredKeeps, ResultStoredKeeps
    <3>5. CASE Taken(t)
      BY <3>5, TakenKeeps
    <3>6. CASE Freed(t)
      BY <3>6, FreedKeeps
    <3> QED BY <2>2, <3>1, <3>2, <3>3, <3>4, <3>5, <3>6 DEF Step
  <2>3. CASE \E s \in Slots : \E o \in Objects : Create(t, s, o)
    BY <2>3, CreateKeeps
  <2>4. CASE \E s \in Slots : Reset(t, s)
    BY <2>4, ResetKeeps
  <2>5. CASE \E s \in Slots : \E src \in Slots : Copy(t, s, src)
    BY <2>5, CopyKeeps
  <2>6. CASE \E s \in Slots : \E src \in Slots : Move(t, s, src)
    BY <2>6, MoveKeeps
  <2>7. CASE \E s \in Slots : \E src \in Slots : Swap(t, s, src)
    BY <2>7, SwapKeeps
  <2> QED BY <2>1, <2>2, <2>3, <2>4, <2>5, <2>6, <2>7
<1>2. CASE UNCHANGED vars
  <2>1. /\ UNCHANGED <<live, count, tracked, rc, id, swapped>> /\ todo' = todo /\ uses' = uses
    BY <1>2 DEF vars
  <2>2. /\ Stacks' /\ UsesSound' /\ (\A u \in Threads : RetainOf(u)') /\ Written' = Written
        /\ \A o : Dropping(o)' = Dropping(o) /\ Giving(o)' = Giving(o)
        /\ \A u \in Threads : IdOf(u)'
        /\ \A x, p, n : /\ HoldsId(x, p, n)' <=>
                             x \in Slots /\ x \notin Written /\ rc'[x].ptr = p /\ rc'[x].id = n
                        /\ DropsId(x, p, n)' <=> DropsId(x, p, n)
                        /\ GivesId(x, p, n)' <=> GivesId(x, p, n)
    BY <2>1, IdleKeeps
  <2>3. \A o : Holding(o)' = Holding(o)
    BY <2>1, <2>2 DEF Holding, Slots
  <2>4. CountsSound'
    <3>1. \A o \in Objects : count'[o] = Cardinality(Holding(o)') + Cardinality(Dropping(o)') + Cardinality(Giving(o)')
      BY <2>1, <2>2, <2>3, CountKept
    <3> QED BY <3>1 DEF CountsSound
  <2>5. FreesSound'
    BY <2>1, FreesIs DEF IInv, FreesSound
  <2>6. TypeOK'
    BY <2>1 DEF IInv, TypeOK
  <2>7. NumbersSound'
    <3>1. \A x, p, n : HoldsId(x, p, n)' <=> HoldsId(x, p, n)
      BY <2>1, <2>2, KeepsIs
    <3> QED BY <2>1, <2>2, <3>1, AllStay
  <2> QED BY <2>2, <2>4, <2>5, <2>6, <2>7 DEF IInv, RefAssumption, Slots, Id
<1> QED BY <1>1, <1>2

-------------------------------------------------------------------------------
\* The theorems.

LEMMA Invariance == RefAssumption /\ Spec => []IInv
<1>1. RefAssumption /\ Init => IInv
  BY InitSound
<1>2. IInv /\ [Next]_vars => IInv'
  BY StepKeeps
<1> QED BY <1>1, <1>2, PTL DEF Spec

\* Sets that have as many members as each other.
LEMMA SameSize ==
    ASSUME NEW S, IsFiniteSet(S), NEW T, NEW f \in [S -> T],
           \A a, b \in S : f[a] = f[b] => a = b,
           \A x \in T : \E a \in S : f[a] = x
    PROVE  IsFiniteSet(T) /\ Cardinality(T) = Cardinality(S)
<1>1. f \in Bijection(S, T)
  BY DEF Bijection, Injection, Surjection, IsInjective
<1> QED BY <1>1, FS_Bijection DEF ExistsBijection

\* What is pending for an object, when a thread has it once at the most.
LEMMA PendingIs ==
    ASSUME IInv, NEW what, NEW o,
           \A t \in Threads : \A i, j \in 1..Len(todo[t]) :
                todo[t][i].do = what /\ todo[t][i].obj = o /\ todo[t][j].do = what /\ todo[t][j].obj = o => i = j
    PROVE  Pending(what, o) = Cardinality({t \in Threads : Has(todo[t], what, o)})
<1> DEFINE S == {t \in Threads : Has(todo[t], what, o)}
           At(t) == {i \in DOMAIN todo[t] : todo[t][i].do = what /\ todo[t][i].obj = o}
           T == UNION {{t} \X At(t) : t \in Threads}
           f == [t \in S |-> <<t, CHOOSE i \in At(t) : TRUE>>]
<1>1. IsFiniteSet(S)
  BY FS_Subset DEF IInv, RefAssumption
<1>2. \A t \in Threads : DOMAIN todo[t] = 1..Len(todo[t])
  BY DEF IInv, Stacks
<1>3. \A t \in Threads : t \in S <=> \E i : i \in At(t)
  BY <1>2 DEF Has
<1>4. \A t \in Threads : \A i, j \in At(t) : i = j
  BY <1>2
<1> HIDE DEF At
<1>5. \A t \in Threads : \A i \in At(t) : <<t, i>> \in T
  OBVIOUS
<1>6. \A x \in T : \E t \in Threads : \E i \in At(t) : x = <<t, i>>
  OBVIOUS
<1> HIDE DEF S, T
<1>7. \A t \in S : t \in Threads
  BY DEF S
<1>8. \A t \in S : \A i \in At(t) : f[t] = <<t, i>>
  BY <1>4, <1>7
<1>9. f \in [S -> T]
  BY <1>3, <1>5, <1>7
<1>10. \A t, u \in S : f[t] = f[u] => t = u
  OBVIOUS
<1>11. \A x \in T : \E t \in S : f[t] = x
  BY <1>3, <1>6, <1>8
<1> HIDE DEF f
<1>12. Cardinality(T) = Cardinality(S)
  BY <1>1, <1>9, <1>10, <1>11, SameSize
<1> QED BY <1>12 DEF Pending, S, T, At

LEMMA OnceDecrement ==
    ASSUME IInv, NEW t \in Threads, NEW i \in 1..Len(todo[t]), NEW j \in 1..Len(todo[t]),
           todo[t][i].do = "decrement", todo[t][j].do = "decrement"
    PROVE  i = j
<1>1. Place(todo[t], i) /\ Place(todo[t], j) /\ Len(todo[t]) \in Nat
  BY LenProperties DEF IInv, Stacks, Stack
<1>2. ~(i \in 1..j - 1) /\ ~(j \in 1..i - 1)
  BY <1>1 DEF Place
<1> QED BY <1>1, <1>2

LEMMA OnceElse ==
    ASSUME IInv, NEW t \in Threads, NEW i \in 1..Len(todo[t]), NEW j \in 1..Len(todo[t])
    PROVE  /\ todo[t][i].do = "increment" /\ todo[t][j].do = "increment" => i = j
           /\ todo[t][i].do = "free" /\ todo[t][j].do = "free" /\ todo[t][i].obj = todo[t][j].obj => i = j
<1>1. Place(todo[t], i) /\ Place(todo[t], j)
  BY DEF IInv, Stacks, Stack
<1> QED BY <1>1 DEF Place

\* Who touches what.
LEMMA TouchesSound ==
    ASSUME IInv, NEW t \in Threads, todo[t] # <<>>
    PROVE  LET step == Head(todo[t]) IN
           /\ step.do \in {"increment", "track", "untrack", "decrement", "free"} => step.obj \in live
           /\ step.do \in {"store", "take"} => step.slot \in Locals \cup live
           /\ step.do = "take" => step.src \in Locals \cup live
<1> DEFINE e == Head(todo[t])
           y == Tail(todo[t])
<1>1. /\ e = todo[t][1] /\ e \in Steps /\ Stack(y) /\ Stack(todo[t])
      /\ \A what, o : Has(todo[t], what, o) <=> (e.do = what /\ e.obj = o) \/ Has(y, what, o)
      /\ \A s : Puts(todo[t], s) <=> (Writes(e) /\ e.slot = s) \/ Puts(y, s)
      /\ y # <<>> => Fits(e, y) /\ Final(y) = Final(todo[t])
      /\ y = <<>> => Writes(e) /\ Final(todo[t]) = e
  BY PopIs DEF IInv, Stacks
<1> HIDE DEF e, y
<1>2. y # <<>> => 1 \in 1..Len(y)
  BY <1>1, EmptySeq, LenProperties DEF Stack
<1>3. \A s : Guarded(s) => s \in Locals \cup live
  BY DEF Guarded, IInv, FreesSound
<1>4. CASE e.do = "increment"
  <2>1. e.obj \in Objects /\ count[e.obj] # 0
    BY <1>1, <1>4, RetainAlive
  <2> QED BY <1>4, <2>1 DEF e, IInv, FreesSound
<1>5. CASE e.do = "track"
  <2>1. e.obj \in Objects /\ y # <<>>
    BY <1>1, <1>5, StepIs DEF Writes
  <2>2. Final(todo[t]).do = "store" /\ Final(todo[t]).ptr = e.obj
    BY <1>1, <1>5, <2>1 DEF Fits
  <2>3. t \in Giving(e.obj)
    BY <1>1, <1>5, <2>2, GivingIs
  <2> QED BY <1>5, <2>1, <2>3, ReferredAlive DEF e
<1>6. CASE e.do = "untrack"
  <2>1. e.obj \in Objects /\ y # <<>>
    BY <1>1, <1>6, StepIs DEF Writes
  <2>2. Has(y, "decrement", e.obj)
    BY <1>1, <1>2, <1>6, <2>1 DEF Fits, Has
  <2>3. t \in Dropping(e.obj)
    BY <1>1, <2>2, DroppingIs
  <2> QED BY <1>6, <2>1, <2>3, ReferredAlive DEF e
<1>7. CASE e.do = "decrement"
  <2>1. e.obj \in Objects
    BY <1>1, <1>7, StepIs
  <2>2. t \in Dropping(e.obj)
    BY <1>1, <1>7, DroppingIs
  <2> QED BY <1>7, <2>1, <2>2, ReferredAlive DEF e
<1>8. CASE e.do = "free"
  <2>1. e.obj \in Objects
    BY <1>1, <1>8, StepIs
  <2>2. Has(todo[t], "free", e.obj)
    BY <1>1, <1>8
  <2> QED BY <1>8, <2>1, <2>2 DEF e, IInv, FreesSound
<1>9. CASE Writes(e)
  <2>1. Puts(todo[t], e.slot)
    BY <1>1, <1>9
  <2>2. e.slot \in Slots /\ (e.slot = Final(todo[t]).slot \/ (e.slot \in Owners /\ Has(todo[t], "free", e.slot)))
    BY <1>1, <2>1, StackHas
  <2>3. e.slot \in Locals \cup live
    <3>1. CASE e.slot = Final(todo[t]).slot
      BY <1>3, <3>1, FinalGuarded
    <3>2. CASE e.slot \in Owners /\ Has(todo[t], "free", e.slot)
      BY <3>2 DEF IInv, FreesSound, RefAssumption
    <3> QED BY <2>2, <3>1, <3>2
  <2>4. e.do = "take" => e.src \in Locals \cup live
    <3>1. e.do = "take" => Final(todo[t]) = e
      BY <1>1 DEF Fits
    <3> QED BY <1>3, <3>1, FinalGuarded
  <2> QED BY <1>9, <2>3, <2>4 DEF e, Writes
<1> QED BY <1>1, <1>4, <1>5, <1>6, <1>7, <1>8, <1>9, StepIs DEF Writes, e

LEMMA InvariantNoDangling == IInv => NoDangling
<1> SUFFICES ASSUME IInv PROVE NoDangling
  OBVIOUS
<1>1. \A t \in Threads : todo[t] # <<>> =>
         LET step == Head(todo[t]) IN
           /\ step.do \in {"increment", "track", "untrack", "decrement", "free"} => step.obj \in live
           /\ step.do \in {"store", "take"} => step.slot \in Locals \cup live
           /\ step.do = "take" => step.src \in Locals \cup live
  BY TouchesSound
<1>2. ASSUME NEW s \in Locals \cup {o \in live \cap Owners : count[o] > 0}, Free(s), rc[s].ptr # NULL
      PROVE  rc[s].ptr \in live /\ count[rc[s].ptr] > 0
  <2>1. s \in Slots /\ Guarded(s)
    <3>1. CASE s \in Locals
      BY <3>1 DEF Slots, Guarded
    <3>2. CASE s \in live \cap Owners /\ count[s] > 0
      BY <3>2 DEF Slots, Guarded, IInv, RefAssumption
    <3> QED BY <3>1, <3>2
  <2>2. s \notin Written
    <3>1. ASSUME NEW u \in Threads, Puts(todo[u], s) PROVE FALSE
      BY <1>2, <2>1, <3>1, WrittenBy DEF Free
    <3> QED BY <3>1 DEF Written
  <2>3. rc[s].ptr \in Objects
    BY <1>2, <2>1 DEF IInv, TypeOK
  <2>4. s \in Holding(rc[s].ptr)
    BY <2>1, <2>2 DEF Holding
  <2>5. rc[s].ptr \in live /\ count[rc[s].ptr] \in Nat \ {0}
    BY <2>3, <2>4, ReferredAlive
  <2> QED BY <2>5
<1>3. ASSUME NEW o \in live, count[o] = 0 PROVE Pending("free", o) = 1
  <2>1. o \in Objects
    BY DEF IInv, TypeOK
  <2>2. PICK t \in Threads : Has(todo[t], "free", o)
    BY <1>3, <2>1 DEF IInv, FreesSound
  <2>3. \A u \in Threads : Has(todo[u], "free", o) => u = t
    BY <2>1, <2>2 DEF IInv, FreesSound
  <2>4. {u \in Threads : Has(todo[u], "free", o)} = {t}
    BY <2>2, <2>3
  <2>5. Pending("free", o) = Cardinality({u \in Threads : Has(todo[u], "free", o)})
    <3>1. \A u \in Threads : \A i, j \in 1..Len(todo[u]) :
                todo[u][i].do = "free" /\ todo[u][i].obj = o /\ todo[u][j].do = "free" /\ todo[u][j].obj = o => i = j
      BY OnceElse
    <3> QED BY <3>1, PendingIs
  <2> QED BY <2>4, <2>5, FS_Singleton
<1> QED BY <1>1, <1>2, <1>3 DEF NoDangling

\* The thread whose operation is for variable s, and the one that is to move from it.
For(t, s) == t \in Threads /\ todo[t] # <<>> /\ Final(todo[t]).slot = s
From(t, s) == t \in Threads /\ todo[t] # <<>> /\ Final(todo[t]).do = "take" /\ Final(todo[t]).src = s

\* What a variable will hold.
LEMMA AfterIs ==
    ASSUME IInv, NEW s \in Slots
    PROVE  /\ (\E t : From(t, s)) => After(s) = NULL
           /\ (\A t : ~From(t, s)) /\ s \notin Written => After(s) = rc[s].ptr
           /\ (\A t : ~From(t, s)) => \A t : For(t, s) =>
                LET e == Final(todo[t]) IN After(s) = IF e.do = "store" THEN e.ptr ELSE rc[e.src].ptr
           /\ s \in Written /\ (\A t : ~For(t, s)) => After(s) = NULL
<1> DEFINE writes(t) == {i \in DOMAIN todo[t] : todo[t][i].do \in {"store", "take"}}
           moved == {t \in Threads : \E i \in writes(t) : todo[t][i].do = "take" /\ todo[t][i].src = s}
           into == {t \in Threads : \E i \in writes(t) : todo[t][i].slot = s}
           at(t) == CHOOSE i \in writes(t) : todo[t][i].slot = s
           w == CHOOSE t \in into : TRUE
           e == todo[w][at(w)]
<1>1. After(s) = IF moved # {} THEN NULL ELSE IF into = {} THEN rc[s].ptr
                 ELSE IF e.do = "store" THEN e.ptr ELSE rc[e.src].ptr
  BY DEF After
<1>2. ASSUME NEW t \in Threads
      PROVE  /\ \A i : i \in writes(t) <=> i \in 1..Len(todo[t]) /\ Writes(todo[t][i])
             /\ \A i \in 1..Len(todo[t]) : Place(todo[t], i)
             /\ todo[t] # <<>> => Len(todo[t]) \in 1..Len(todo[t]) /\ Writes(Final(todo[t]))
             /\ Len(todo[t]) \in Nat /\ (todo[t] = <<>> <=> Len(todo[t]) = 0)
  <2>1. todo[t] \in Seq(Steps) /\ DOMAIN todo[t] = 1..Len(todo[t]) /\ Len(todo[t]) \in Nat
    BY LenProperties DEF IInv, Stacks
  <2>2. todo[t] = <<>> <=> Len(todo[t]) = 0
    BY <2>1, EmptySeq
  <2> QED BY <2>1, <2>2 DEF Writes, IInv, Stacks, Stack, Final
<1>3. \A t : t \in moved <=> From(t, s)
  <2>1. ASSUME NEW t \in moved PROVE From(t, s)
    <3>1. PICK i \in writes(t) : todo[t][i].do = "take" /\ todo[t][i].src = s
      OBVIOUS
    <3>2. i = Len(todo[t]) /\ todo[t] # <<>>
      BY <1>2, <3>1 DEF Place
    <3> QED BY <3>1, <3>2 DEF From, Final
  <2>2. ASSUME NEW t, From(t, s) PROVE t \in moved
    <3>1. t \in Threads /\ Len(todo[t]) \in writes(t)
      BY <1>2, <2>2 DEF From, Final
    <3> QED BY <2>2, <3>1 DEF From, Final
  <2> QED BY <2>1, <2>2
<1>4. \A t : t \in into <=> t \in Threads /\ Puts(todo[t], s)
  BY <1>2 DEF Puts
<1>5. into = {} <=> s \notin Written
  BY <1>4 DEF Written
<1>6. ASSUME into # {} PROVE w \in into /\ at(w) \in writes(w) /\ e.slot = s
  <2>1. w \in into
    BY <1>6
  <2>2. \E i \in writes(w) : todo[w][i].slot = s
    BY <2>1
  <2>3. at(w) \in writes(w) /\ todo[w][at(w)].slot = s
    BY <2>2
  <2> QED BY <2>1, <2>3
<1> HIDE DEF moved, into, at, w, writes
<1>7. ASSUME into # {}, at(w) # Len(todo[w])
      PROVE  e.do = "store" /\ e.ptr = NULL /\ \A t : ~For(t, s)
  <2>1. w \in Threads /\ at(w) \in 1..Len(todo[w]) /\ Writes(e) /\ e.slot = s /\ Len(todo[w]) \in Nat
    BY <1>2, <1>4, <1>6, <1>7
  <2>2. Place(todo[w], at(w))
    BY <1>2, <2>1
  <2>3. e.do = "store"
    BY <1>7, <2>1, <2>2 DEF Place, Writes
  <2>4. e.ptr = NULL /\ s \in Owners /\ todo[w][at(w) + 1].do = "free" /\ todo[w][at(w) + 1].obj = s
    BY <1>7, <2>1, <2>2, <2>3 DEF Place
  <2>5. Has(todo[w], "free", s)
    <3>1. at(w) + 1 \in 1..Len(todo[w])
      BY <1>7, <2>1
    <3> QED BY <2>4, <3>1 DEF Has
  <2>6. ~Guarded(s)
    BY <2>1, <2>4, <2>5 DEF Guarded, IInv, FreesSound, RefAssumption
  <2>7. \A t : ~For(t, s)
    BY <2>6, FinalGuarded DEF For
  <2> QED BY <2>3, <2>4, <2>7
<1>8. ASSUME into # {}, at(w) = Len(todo[w])
      PROVE  For(w, s) /\ e = Final(todo[w]) /\ Writes(e)
  <2>1. w \in Threads /\ todo[w] # <<>>
    BY <1>2, <1>4, <1>6, <1>8
  <2> QED BY <1>2, <1>6, <1>8, <2>1 DEF For, Final
<1>9. ASSUME NEW t, For(t, s) PROVE into # {} /\ (into # {} => w = t)
  <2>1. \A u \in Threads : Puts(todo[u], s) <=> u = t
    BY <1>9, FinalGuarded DEF For
  <2> QED BY <1>4, <1>6, <1>9, <2>1 DEF For
<1>10. (\E t : From(t, s)) => After(s) = NULL
  BY <1>1, <1>3
<1>11. (\A t : ~From(t, s)) /\ s \notin Written => After(s) = rc[s].ptr
  BY <1>1, <1>3, <1>5
<1>12. ASSUME \A t : ~From(t, s), NEW t, For(t, s)
       PROVE  After(s) = IF Final(todo[t]).do = "store" THEN Final(todo[t]).ptr ELSE rc[Final(todo[t]).src].ptr
  <2>1. into # {} /\ w = t
    BY <1>9, <1>12
  <2>2. at(w) = Len(todo[w])
    BY <1>7, <1>12, <2>1
  <2>3. e = Final(todo[t])
    BY <1>8, <2>1, <2>2
  <2>4. moved = {}
    BY <1>3, <1>12
  <2> QED BY <1>1, <2>1, <2>3, <2>4
<1>13. ASSUME s \in Written, \A t : ~For(t, s) PROVE After(s) = NULL
  <2>1. into # {}
    BY <1>5, <1>13
  <2>2. at(w) # Len(todo[w])
    BY <1>8, <1>13, <2>1
  <2>3. e.do = "store" /\ e.ptr = NULL
    BY <1>7, <2>1, <2>2
  <2> QED BY <1>1, <2>1, <2>3
<1> QED BY <1>10, <1>11, <1>12, <1>13

LEMMA ForFrom ==
    ASSUME IInv, NEW t, NEW u, NEW s
    PROVE  /\ For(t, s) => s \in Slots /\ s \in Written /\ Writes(Final(todo[t]))
           /\ For(t, s) /\ For(u, s) => t = u
           /\ From(t, s) => s \in Slots /\ (s \in Written => Final(todo[t]).slot = s)
           /\ From(t, s) /\ From(u, s) => t = u
           /\ For(t, s) /\ From(u, s) => t = u
<1>1. For(t, s) => s \in Slots /\ s \in uses[t] /\ s \in Written
  BY FinalGuarded DEF For, Written
<1>2. For(u, s) => s \in Slots /\ s \in uses[u]
  BY FinalGuarded DEF For
<1>3. From(t, s) => s \in Slots /\ s \in uses[t] /\ (s \in Written => Final(todo[t]).slot = s)
  BY FinalGuarded DEF From
<1>4. From(u, s) => s \in Slots /\ s \in uses[u]
  BY FinalGuarded DEF From
<1>5. For(t, s) => Writes(Final(todo[t]))
  BY StackHas DEF For, IInv, Stacks
<1> QED BY <1>1, <1>2, <1>3, <1>4, <1>5 DEF For, From, IInv, UsesSound

\* The variables that will hold an object are those that hold it and keep it or pass it on, and
\* those that it is to be stored to.
LEMMA AfterCount ==
    ASSUME IInv, NEW o \in Objects
    PROVE  Cardinality({s \in Slots : After(s) = o}) = Cardinality(Holding(o)) + Cardinality(Storing(o))
<1> DEFINE A == {s \in Slots : After(s) = o}
           Given == {s \in A : \E t : For(t, s) /\ Final(todo[t]).do = "store"}
           Rest == A \ Given
           f == [t \in Storing(o) |-> Final(todo[t]).slot]
           heir(s) == IF \E t : From(t, s) THEN Final(todo[CHOOSE t : From(t, s)]).slot ELSE s
           g == [s \in Holding(o) |-> heir(s)]
<1>1. o # NULL
  BY DEF IInv, RefAssumption
<1>2. /\ IsFiniteSet(Holding(o)) /\ Cardinality(Holding(o)) \in Nat
      /\ IsFiniteSet(Storing(o)) /\ Cardinality(Storing(o)) \in Nat
  <2>1. Storing(o) \subseteq Threads /\ IsFiniteSet(Threads)
    BY DEF Storing, IInv, RefAssumption
  <2> QED BY <2>1, Sizes, FS_Subset, FS_CardinalityType
<1>3. \A s : s \in A <=> s \in Slots /\ After(s) = o
  OBVIOUS
<1>4. \A s : s \in Given <=> s \in A /\ \E t : For(t, s) /\ Final(todo[t]).do = "store"
  OBVIOUS
<1>5. \A s : s \in Rest <=> s \in A /\ s \notin Given
  OBVIOUS
<1>6. Given \cup Rest = A /\ Given \cap Rest = {}
  OBVIOUS
<1> HIDE DEF A, Given, Rest
<1>7. \A t \in Storing(o) : Final(todo[t]).slot \in Given
  <2> SUFFICES ASSUME NEW t \in Storing(o) PROVE Final(todo[t]).slot \in Given
    OBVIOUS
  <2> DEFINE s == Final(todo[t]).slot
  <2>1. For(t, s) /\ Final(todo[t]).do = "store" /\ Final(todo[t]).ptr = o
    BY DEF Storing, For
  <2> HIDE DEF s
  <2>2. s \in Slots /\ \A u : ~From(u, s)
    BY <2>1, ForFrom DEF From
  <2>3. After(s) = o
    BY <2>1, <2>2, AfterIs
  <2>4. s \in Given
    BY <1>3, <1>4, <2>1, <2>2, <2>3
  <2> QED BY <2>4 DEF s
<1>8. f \in [Storing(o) -> Given]
  BY <1>7
<1>9. \A t, u \in Storing(o) : f[t] = f[u] => t = u
  <2> SUFFICES ASSUME NEW t \in Storing(o), NEW u \in Storing(o), Final(todo[t]).slot = Final(todo[u]).slot
               PROVE  t = u
    OBVIOUS
  <2>1. For(t, Final(todo[t]).slot) /\ For(u, Final(todo[t]).slot)
    BY DEF Storing, For
  <2> QED BY <2>1, ForFrom
<1>10. \A s \in Given : \E t \in Storing(o) : f[t] = s
  <2> SUFFICES ASSUME NEW s \in Given PROVE \E t \in Storing(o) : Final(todo[t]).slot = s
    OBVIOUS
  <2>1. PICK t : For(t, s) /\ Final(todo[t]).do = "store"
    BY <1>4
  <2>2. s \in Slots /\ \A u : ~From(u, s)
    BY <2>1, ForFrom DEF From
  <2>3. After(s) = Final(todo[t]).ptr
    BY <2>1, <2>2, AfterIs
  <2>4. Final(todo[t]).ptr = o
    BY <1>3, <1>4, <2>3
  <2> QED BY <2>1, <2>4 DEF For, Storing
<1> HIDE DEF f
<1>11. IsFiniteSet(Given) /\ Cardinality(Given) = Cardinality(Storing(o))
  BY <1>2, <1>8, <1>9, <1>10, SameSize
<1>12. ASSUME NEW s \in Holding(o), NEW t, From(t, s)
       PROVE  /\ heir(s) = Final(todo[t]).slot /\ For(t, heir(s)) /\ heir(s) \in Written
              /\ heir(s) \in Rest
  <2>1. (CHOOSE u : From(u, s)) = t
    BY <1>12, ForFrom
  <2>2. heir(s) = Final(todo[t]).slot
    BY <1>12, <2>1
  <2> DEFINE x == heir(s)
  <2> HIDE DEF heir
  <2>3. For(t, x) /\ x = Final(todo[t]).slot
    BY <1>12, <2>2 DEF For, From
  <2> HIDE DEF x
  <2>4. x \in Written /\ x \in Slots /\ s \notin Written /\ rc[s].ptr = o
    BY <2>3, ForFrom DEF Holding
  <2>5. Final(todo[t]).do = "take" /\ Final(todo[t]).src = s
    BY <1>12 DEF From
  <2>6. \A u : ~From(u, x)
    BY <2>3, <2>4, <2>5, ForFrom DEF From
  <2>7. After(x) = o
    BY <2>3, <2>4, <2>5, <2>6, AfterIs
  <2>8. x \notin Given
    BY <1>4, <2>3, <2>5, ForFrom
  <2>9. x \in Rest
    BY <1>3, <1>5, <2>4, <2>7, <2>8
  <2> QED BY <2>2, <2>3, <2>4, <2>9 DEF x
<1>13. ASSUME NEW s \in Holding(o), \A t : ~From(t, s)
       PROVE  heir(s) = s /\ s \notin Written /\ s \in Rest
  <2>1. heir(s) = s
    BY <1>13
  <2>2. s \notin Written /\ rc[s].ptr = o /\ s \in Slots
    BY DEF Holding
  <2>3. After(s) = o
    BY <1>13, <2>2, AfterIs
  <2>4. s \notin Given
    BY <1>4, <2>2, ForFrom
  <2> QED BY <1>3, <1>5, <2>1, <2>2, <2>3, <2>4
<1> HIDE DEF heir
<1>14. g \in [Holding(o) -> Rest]
  BY <1>12, <1>13
<1>15. \A r, s \in Holding(o) : g[r] = g[s] => r = s
  <2> SUFFICES ASSUME NEW r \in Holding(o), NEW s \in Holding(o), heir(r) = heir(s) PROVE r = s
    OBVIOUS
  <2>1. CASE \E t, u : From(t, r) /\ From(u, s)
    <3>1. PICK t, u : From(t, r) /\ From(u, s)
      BY <2>1
    <3>2. For(t, heir(r)) /\ For(u, heir(r))
      BY <1>12, <3>1
    <3>3. t = u
      BY <3>2, ForFrom
    <3> QED BY <3>1, <3>3 DEF From
  <2>2. CASE \A t : ~From(t, r)
    BY <1>12, <1>13, <2>2
  <2>3. CASE \A t : ~From(t, s)
    BY <1>12, <1>13, <2>3
  <2> QED BY <2>1, <2>2, <2>3
<1>16. \A x \in Rest : \E s \in Holding(o) : g[s] = x
  <2> SUFFICES ASSUME NEW x \in Rest PROVE \E s \in Holding(o) : heir(s) = x
    OBVIOUS
  <2>1. x \in Slots /\ After(x) = o /\ x \in A /\ x \notin Given
    BY <1>3, <1>5
  <2>2. \A t : ~From(t, x)
    BY <1>1, <2>1, AfterIs
  <2>3. CASE x \notin Written
    <3>1. rc[x].ptr = o
      BY <2>1, <2>2, <2>3, AfterIs
    <3>2. x \in Holding(o)
      BY <2>1, <2>3, <3>1 DEF Holding
    <3> QED BY <1>13, <2>2, <3>2
  <2>4. CASE x \in Written
    <3>1. PICK t : For(t, x)
      BY <1>1, <2>1, <2>4, AfterIs
    <3>2. Final(todo[t]).do = "take"
      BY <1>4, <2>1, <3>1, ForFrom DEF Writes
    <3> DEFINE q == Final(todo[t]).src
    <3>3. From(t, q) /\ Final(todo[t]).slot = x
      BY <3>1, <3>2 DEF For, From
    <3>4. After(x) = rc[q].ptr
      BY <2>1, <2>2, <3>1, <3>2, AfterIs
    <3> HIDE DEF q
    <3>5. q \in Slots /\ q # x
      BY <2>2, <3>3, ForFrom
    <3>6. q \notin Written
      BY <3>3, <3>5, ForFrom
    <3>7. q \in Holding(o)
      BY <2>1, <3>4, <3>5, <3>6 DEF Holding
    <3>8. heir(q) = x
      BY <1>12, <3>3, <3>7
    <3> QED BY <3>7, <3>8
  <2> QED BY <2>3, <2>4
<1> HIDE DEF g
<1>17. IsFiniteSet(Rest) /\ Cardinality(Rest) = Cardinality(Holding(o))
  BY <1>2, <1>14, <1>15, <1>16, SameSize
<1>18. Cardinality(A) = Cardinality(Given) + Cardinality(Rest)
  <2>1. Cardinality(Given \cap Rest) = 0
    BY <1>6, FS_EmptySet
  <2>2. Cardinality(Given \cup Rest) = Cardinality(Given) + Cardinality(Rest) - Cardinality(Given \cap Rest)
    BY <1>11, <1>17, FS_Union
  <2>3. Cardinality(Given) \in Nat /\ Cardinality(Rest) \in Nat
    BY <1>2, <1>11, <1>17
  <2>4. Cardinality(Given \cup Rest) = Cardinality(Given) + Cardinality(Rest)
    BY <2>1, <2>2, <2>3
  <2> QED BY <1>6, <2>4
<1> QED BY <1>2, <1>11, <1>17, <1>18 DEF A

\* What is to be stored has been retained, or is about to be.
LEMMA StoringCount ==
    ASSUME IInv, NEW o \in Objects
    PROVE  /\ Cardinality(Storing(o)) = Cardinality(Giving(o)) + Cardinality({t \in Threads : Has(todo[t], "increment", o)})
           /\ Cardinality({t \in Threads : Has(todo[t], "increment", o)}) \in Nat
<1> DEFINE I == {t \in Threads : Has(todo[t], "increment", o)}
<1>1. IsFiniteSet(I) /\ Cardinality(I) \in Nat
  <2>1. I \subseteq Threads /\ IsFiniteSet(Threads)
    BY DEF IInv, RefAssumption
  <2> QED BY <2>1, FS_Subset, FS_CardinalityType
<1>2. ASSUME NEW t \in Threads, todo[t] # <<>>, todo[t][1].do = "increment"
      PROVE  Final(todo[t]).do = "store" /\ Final(todo[t]).ptr = todo[t][1].obj
  <2>1. /\ todo[t] \in Seq(Steps) /\ Len(todo[t]) \in Nat \ {0} /\ Writes(Final(todo[t]))
        /\ \A i \in 1..Len(todo[t]) : Place(todo[t], i)
    BY <1>2, EmptySeq, LenProperties DEF IInv, Stacks, Stack, Final
  <2>2. 1 \in 1..Len(todo[t]) /\ todo[t][2].do = "track" /\ todo[t][2].obj = todo[t][1].obj
    BY <1>2, <2>1 DEF Place
  <2>3. Len(todo[t]) # 1
    BY <1>2, <2>1 DEF Writes, Final
  <2>4. 2 \in 1..Len(todo[t])
    <3> DEFINE n == Len(todo[t])
    <3>1. n \in Nat \ {0} /\ n # 1
      BY <2>1, <2>3
    <3> HIDE DEF n
    <3>2. 2 \in 1..n
      BY <3>1
    <3> QED BY <3>2 DEF n
  <2> QED BY <2>1, <2>2, <2>4 DEF Place, Final
<1>3. \A t \in Threads : Has(todo[t], "increment", o) <=>
        todo[t] # <<>> /\ todo[t][1].do = "increment" /\ todo[t][1].obj = o
  BY StackHas DEF IInv, Stacks
<1>4. \A t : t \in I <=> t \in Storing(o) /\ t \notin Giving(o)
  BY <1>2, <1>3 DEF Giving, Storing
<1>5. Storing(o) = Giving(o) \cup I /\ Giving(o) \cap I = {}
  BY <1>4 DEF Giving
<1> HIDE DEF I
<1>6. Cardinality(Giving(o) \cup I) = Cardinality(Giving(o)) + Cardinality(I) - Cardinality(Giving(o) \cap I)
  BY <1>1, Sizes, FS_Union
<1>7. Cardinality(Giving(o) \cap I) = 0
  BY <1>5, FS_EmptySet
<1>8. Cardinality(Giving(o)) \in Nat
  BY Sizes
<1>9. Cardinality(Storing(o)) = Cardinality(Giving(o)) + Cardinality(I)
  BY <1>1, <1>5, <1>6, <1>7, <1>8
<1> QED BY <1>1, <1>9 DEF I

LEMMA InvariantCountExact == IInv => CountExact
<1> SUFFICES ASSUME IInv, NEW o \in live
             PROVE  count[o] + Pending("increment", o)
                      = Cardinality({s \in Slots : After(s) = o}) + Pending("decrement", o)
  BY DEF CountExact
<1>1. o \in Objects
  BY DEF IInv, TypeOK
<1>2. Pending("decrement", o) = Cardinality(Dropping(o))
  <2>1. \A t \in Threads : \A i, j \in 1..Len(todo[t]) :
            todo[t][i].do = "decrement" /\ todo[t][i].obj = o /\ todo[t][j].do = "decrement" /\ todo[t][j].obj = o
                => i = j
    BY OnceDecrement
  <2> QED BY <2>1, PendingIs DEF Dropping
<1>3. Pending("increment", o) = Cardinality({t \in Threads : Has(todo[t], "increment", o)})
  <2>1. \A t \in Threads : \A i, j \in 1..Len(todo[t]) :
            todo[t][i].do = "increment" /\ todo[t][i].obj = o /\ todo[t][j].do = "increment" /\ todo[t][j].obj = o
                => i = j
    BY OnceElse
  <2> QED BY <2>1, PendingIs
<1>4. count[o] = Cardinality(Holding(o)) + Cardinality(Dropping(o)) + Cardinality(Giving(o))
  BY <1>1 DEF IInv, CountsSound
<1>5. Cardinality({s \in Slots : After(s) = o}) = Cardinality(Holding(o)) + Cardinality(Storing(o))
  BY <1>1, AfterCount
<1>6. /\ Cardinality(Storing(o)) = Cardinality(Giving(o)) + Pending("increment", o)
      /\ Pending("increment", o) \in Nat
  BY <1>1, <1>3, StoringCount
<1>7. Cardinality(Holding(o)) \in Nat /\ Cardinality(Dropping(o)) \in Nat /\ Cardinality(Giving(o)) \in Nat
  BY <1>1, Sizes
<1> QED BY <1>2, <1>4, <1>5, <1>6, <1>7

\* While nothing is under way each number is in a variable.
LEMMA InvariantTrackerExact == IInv => TrackerExact
<1> SUFFICES ASSUME IInv, \A t \in Threads : todo[t] = <<>>, ~swapped, NEW o \in Objects
             PROVE  tracked[o] = {rc[s].id : s \in {r \in Slots : rc[r].ptr = o}} \ {0}
  BY DEF TrackerExact
<1>1. NumbersOf(o)
  BY DEF IInv, NumbersSound
<1>2. \A x, n : ~DropsId(x, o, n) /\ ~GivesId(x, o, n)
  BY DEF DropsId, Forgets, GivesId, Giving, Storing
<1>3. Written = {}
  BY HasNothing DEF Written
<1>4. \A x, n : HoldsId(x, o, n) <=> x \in Slots /\ rc[x].ptr = o /\ rc[x].id = n
  BY <1>3, KeepsIs
<1>5. \A n : (\E k, x : Keeps(k, x, o, n)) <=> \E x \in Slots : rc[x].ptr = o /\ rc[x].id = n
  BY <1>2, <1>4 DEF Keeps
<1>6. \A n : n \in tracked[o] <=> n # 0 /\ \E x \in Slots : rc[x].ptr = o /\ rc[x].id = n
  BY <1>1, <1>5 DEF NumbersOf
<1> QED BY <1>6

\* Every state has the types that TypeOK gives: counts never fall below zero, and a variable is
\* null or has the address of an object.
THEOREM TypeCorrect == RefAssumption /\ Spec => []TypeOK
<1>1. IInv => TypeOK
  BY DEF IInv
<1> QED BY <1>1, Invariance, PTL

\* An object's _counter is the number of variables that will hold it when the copies, moves and
\* resets that have begun are done: increment and decrement lose no reference and count none twice.
THEOREM CountExactHolds == RefAssumption /\ Spec => []CountExact
BY InvariantCountExact, Invariance, PTL

\* No retain, release or assignment reaches an object after the delete of the last release, no
\* variable is left with one, and the object that nobody refers to is freed once, by one thread.
THEOREM NoDanglingHolds == RefAssumption /\ Spec => []NoDangling
BY InvariantNoDangling, Invariance, PTL

\* Between operations the leak tracker has exactly the numbers that the variables referring to an
\* object keep: retain and release pass each number on, and none is lost or handed back twice.
\* (After a swap of two references it need not: their numbers stay behind.)
THEOREM TrackerExactHolds == RefAssumption /\ Spec => []TrackerExact
BY InvariantTrackerExact, Invariance, PTL

===============================================================================
