------------------------------- MODULE Pool_proof -------------------------------
(***************************************************************************)
(* Proofs about the memory pools: the tree of pools, the calls of clear    *)
(* and ~Pool on the threads' stacks, and the lists of cleanups.            *)
(***************************************************************************)
EXTENDS PoolNodes_proof, TLAPS

-------------------------------------------------------------------------------
\* What a pool is below, when pa are the parents.

UpwardIn(pa, S) == \A q \in S : pa[q] # NULL => pa[q] \in S
AboveIn(pa, p) ==
    {q \in Pools : \A S \in SUBSET Pools : UpwardIn(pa, S) /\ pa[p] \in S \cup {NULL} => q \in S}
Parents(pa) == pa \in [Pools -> Pools \cup {NULL}]

LEMMA AboveIs == \A p : Above(p) = AboveIn(parent, p) /\ Above(p)' = AboveIn(parent', p)
BY DEF Above, AboveIn, Upward, UpwardIn

LEMMA AboveLeast ==
    ASSUME NEW pa, NEW p, NEW S \in SUBSET Pools, UpwardIn(pa, S), pa[p] \in S \cup {NULL}
    PROVE  AboveIn(pa, p) \subseteq S
BY DEF AboveIn

LEMMA AboveUpward ==
    ASSUME NEW pa, Parents(pa), NEW p \in Pools
    PROVE  /\ AboveIn(pa, p) \in SUBSET Pools /\ UpwardIn(pa, AboveIn(pa, p))
           /\ pa[p] \in AboveIn(pa, p) \cup {NULL}
<1> DEFINE A == AboveIn(pa, p)
<1>1. A \in SUBSET Pools
  BY DEF AboveIn
<1>2. ASSUME NEW q \in A, pa[q] # NULL PROVE pa[q] \in A
  <2>1. pa[q] \in Pools
    BY <1>1, <1>2 DEF Parents
  <2>2. ASSUME NEW S \in SUBSET Pools, UpwardIn(pa, S), pa[p] \in S \cup {NULL} PROVE pa[q] \in S
    <3>1. q \in S
      BY <2>2 DEF AboveIn
    <3> QED BY <1>2, <2>2, <3>1 DEF UpwardIn
  <2> QED BY <2>1, <2>2 DEF AboveIn
<1>3. pa[p] # NULL => pa[p] \in A
  <2>1. pa[p] # NULL => pa[p] \in Pools
    BY DEF Parents
  <2> QED BY <2>1 DEF AboveIn
<1> QED BY <1>1, <1>2, <1>3 DEF UpwardIn

LEMMA AboveNothing ==
    ASSUME NEW pa, NEW p, pa[p] = NULL
    PROVE  AboveIn(pa, p) = {}
<1>1. UpwardIn(pa, {})
  BY DEF UpwardIn
<1>2. {} \in SUBSET Pools /\ pa[p] \in {} \cup {NULL}
  OBVIOUS
<1> QED BY <1>1, <1>2, AboveLeast

\* Each of the pools above has those that are above it.
LEMMA AboveOf ==
    ASSUME NEW pa, Parents(pa), NEW p \in Pools, NEW q \in AboveIn(pa, p)
    PROVE  AboveIn(pa, q) \subseteq AboveIn(pa, p)
<1>1. AboveIn(pa, p) \in SUBSET Pools /\ UpwardIn(pa, AboveIn(pa, p))
  BY AboveUpward
<1>2. pa[q] \in AboveIn(pa, p) \cup {NULL}
  BY <1>1 DEF UpwardIn
<1> QED BY <1>1, <1>2, AboveLeast

\* Only the parents of p and of the pools above it count.
LEMMA AboveSame ==
    ASSUME NEW pa, NEW pb, Parents(pa), NEW p \in Pools, pb[p] = pa[p],
           \A q \in AboveIn(pa, p) : pb[q] = pa[q]
    PROVE  AboveIn(pb, p) = AboveIn(pa, p)
<1> DEFINE A == AboveIn(pa, p)
<1>1. A \in SUBSET Pools /\ UpwardIn(pa, A) /\ pa[p] \in A \cup {NULL}
  BY AboveUpward
<1>2. AboveIn(pb, p) \subseteq A
  <2>1. UpwardIn(pb, A)
    BY <1>1 DEF UpwardIn
  <2> HIDE DEF A
  <2> QED BY <1>1, <2>1, AboveLeast
<1>3. ASSUME NEW S \in SUBSET Pools, UpwardIn(pb, S), pb[p] \in S \cup {NULL} PROVE A \subseteq S
  <2> DEFINE R == S \cap A
  <2>1. R \in SUBSET Pools /\ pa[p] \in R \cup {NULL}
    BY <1>1, <1>3
  <2>2. ASSUME NEW q \in R, pa[q] # NULL PROVE pa[q] \in R
    BY <1>1, <1>3, <2>2 DEF UpwardIn
  <2>3. UpwardIn(pa, R)
    BY <2>2 DEF UpwardIn
  <2>4. AboveIn(pa, p) \subseteq R
    <3> HIDE DEF R
    <3> QED BY <2>1, <2>3, AboveLeast
  <2> QED BY <2>4
<1>4. A \subseteq AboveIn(pb, p)
  <2> SUFFICES ASSUME NEW q \in A PROVE q \in AboveIn(pb, p)
    OBVIOUS
  <2>1. q \in Pools
    BY <1>1
  <2> HIDE DEF A
  <2> QED BY <1>3, <2>1 DEF AboveIn
<1> QED BY <1>2, <1>4

\* A pool without a parent more: nothing gets above.
LEMMA AboveLess ==
    ASSUME NEW pa, NEW pb, Parents(pa), NEW p \in Pools, \A q \in Pools : pb[q] = pa[q] \/ pb[q] = NULL
    PROVE  AboveIn(pb, p) \subseteq AboveIn(pa, p)
<1> DEFINE A == AboveIn(pa, p)
<1>1. A \in SUBSET Pools /\ UpwardIn(pa, A) /\ pa[p] \in A \cup {NULL}
  BY AboveUpward
<1>2. UpwardIn(pb, A) /\ pb[p] \in A \cup {NULL}
  BY <1>1 DEF UpwardIn
<1> HIDE DEF A
<1> QED BY <1>1, <1>2, AboveLeast DEF A

-------------------------------------------------------------------------------
\* Stacks of calls.

Frame == [pool : Pools, clear : BOOLEAN, at : {"pre", "children", "cleanups", "unlinked"},
          calling : BOOLEAN]

\* The inner calls work on other pools than the outer ones, and not on one above.
\* Those that call are not yet done.
Ordered(s, pa) ==
    \A k, l \in 1..Len(s) : k < l =>
        /\ s[k].pool # s[l].pool
        /\ s[k].pool \notin AboveIn(pa, s[l].pool)
        /\ s[l].at # "unlinked"

Stacked(s, pa) == s \in Seq(Frame) /\ Ordered(s, pa)

LEMMA StackEmpty == \A pa : Stacked(<<>>, pa) /\ ToSet(<<>>) = {}
<1>1. <<>> \in Seq(Frame) /\ Len(<<>>) = 0
  OBVIOUS
<1>2. \A x : x \in ToSet(<<>>) <=> \E i \in 1..Len(<<>>) : <<>>[i] = x
  BY <1>1, InList
<1>3. ToSet(<<>>) = {}
  BY <1>1, <1>2
<1> QED BY <1>1, <1>3 DEF Stacked, Ordered

\* Pushed(g, s): g is called from s.
LEMMA StackCons ==
    ASSUME NEW s, NEW pa, Stacked(s, pa), NEW g \in Frame,
           \A f \in ToSet(s) : /\ g.pool # f.pool /\ g.pool \notin AboveIn(pa, f.pool)
                               /\ f.at # "unlinked"
    PROVE  /\ Stacked(<<g>> \o s, pa) /\ ToSet(<<g>> \o s) = Plus(ToSet(s), g)
           /\ <<g>> \o s # <<>> /\ Head(<<g>> \o s) = g
<1> DEFINE r == <<g>> \o s
<1>1. s \in Seq(Frame) /\ Len(s) \in Nat /\ \A x : x \in ToSet(s) <=> \E i \in 1..Len(s) : s[i] = x
  BY InList, LenProperties DEF Stacked
<1>2. /\ r \in Seq(Frame) /\ Len(r) = Len(s) + 1
      /\ \A i \in 1..Len(s) + 1 : r[i] = IF i = 1 THEN g ELSE s[i - 1]
  BY <1>1, ConsProperties
<1> HIDE DEF r
<1>3. ASSUME NEW k \in 1..Len(r), NEW l \in 1..Len(r), k < l
      PROVE  r[k].pool # r[l].pool /\ r[k].pool \notin AboveIn(pa, r[l].pool) /\ r[l].at # "unlinked"
  <2>1. l - 1 \in 1..Len(s) /\ r[l] = s[l - 1]
    BY <1>1, <1>2, <1>3
  <2>2. s[l - 1] \in ToSet(s)
    BY <1>1, <2>1
  <2>3. CASE k = 1
    BY <1>2, <2>1, <2>2, <2>3
  <2>4. CASE k # 1
    <3>1. k - 1 \in 1..Len(s) /\ r[k] = s[k - 1] /\ k - 1 < l - 1
      BY <1>1, <1>2, <1>3, <2>4
    <3> QED BY <2>1, <3>1 DEF Stacked, Ordered
  <2> QED BY <2>3, <2>4
<1>4. ASSUME NEW x PROVE x \in ToSet(r) <=> x \in ToSet(s) \/ x = g
  <2>1. x \in ToSet(r) <=> \E i \in 1..Len(r) : r[i] = x
    BY <1>2, InList
  <2>2. 1 \in 1..Len(r) /\ r[1] = g
    BY <1>1, <1>2
  <2>3. ASSUME NEW i \in 1..Len(s) PROVE i + 1 \in 1..Len(r) /\ r[i + 1] = s[i]
    BY <1>1, <1>2
  <2>4. ASSUME NEW i \in 1..Len(r), i # 1 PROVE i - 1 \in 1..Len(s) /\ r[i] = s[i - 1]
    BY <1>1, <1>2, <2>4
  <2>5. ASSUME x \in ToSet(r), x # g PROVE x \in ToSet(s)
    <3>1. PICK i \in 1..Len(r) : r[i] = x
      BY <2>1, <2>5
    <3>2. i # 1
      BY <2>2, <2>5, <3>1
    <3> QED BY <1>1, <2>4, <3>1, <3>2
  <2>6. ASSUME x \in ToSet(s) PROVE x \in ToSet(r)
    <3>1. PICK i \in 1..Len(s) : s[i] = x
      BY <1>1, <2>6
    <3> QED BY <2>1, <2>3, <3>1
  <2> QED BY <2>1, <2>2, <2>5, <2>6
<1>5. ToSet(r) = Plus(ToSet(s), g)
  BY <1>4 DEF Plus
<1>6. r # <<>> /\ Head(r) = g
  <2>1. Len(r) # 0
    BY <1>1, <1>2
  <2>2. r # <<>>
    BY <2>1
  <2>3. Head(r) = r[1]
    BY <1>2, <2>2, TailProperties
  <2> QED BY <1>1, <1>2, <2>2, <2>3
<1> QED BY <1>2, <1>3, <1>5, <1>6 DEF Stacked, Ordered, r

LEMMA StackTail ==
    ASSUME NEW s, NEW pa, Stacked(s, pa), s # <<>>
    PROVE  /\ Stacked(Tail(s), pa) /\ Head(s) \in Frame /\ Head(s) \in ToSet(s)
           /\ \A f \in ToSet(Tail(s)) :
                /\ f \in ToSet(s) /\ f.pool # Head(s).pool /\ f.at # "unlinked"
                /\ Head(s).pool \notin AboveIn(pa, f.pool)
           /\ \A f \in ToSet(s) : f \in Frame /\ (f = Head(s) \/ f \in ToSet(Tail(s)))
<1> DEFINE r == Tail(s)
<1>1. /\ s \in Seq(Frame) /\ Len(s) \in Nat \ {0} /\ Head(s) = s[1] /\ Head(s) \in Frame
      /\ r \in Seq(Frame) /\ Len(r) = Len(s) - 1
      /\ \A i \in 1..Len(s) - 1 : r[i] = s[i + 1]
  BY TailProperties DEF Stacked
<1> HIDE DEF r
<1>2. /\ \A x : x \in ToSet(s) <=> \E i \in 1..Len(s) : s[i] = x
      /\ \A x : x \in ToSet(r) <=> \E i \in 1..Len(r) : r[i] = x
      /\ \A x \in ToSet(s) : x \in Frame
  BY <1>1, InList
<1>3. \A i \in 1..Len(r) : r[i] = s[i + 1] /\ i + 1 \in 1..Len(s) /\ 1 \in 1..Len(s) /\ 1 < i + 1
  BY <1>1
<1>4. ASSUME NEW k \in 1..Len(r), NEW l \in 1..Len(r), k < l
      PROVE  r[k].pool # r[l].pool /\ r[k].pool \notin AboveIn(pa, r[l].pool) /\ r[l].at # "unlinked"
  <2>1. k \in Int /\ l \in Int
    OBVIOUS
  <2>2. k + 1 < l + 1
    BY <1>4, <2>1
  <2>3. k + 1 \in 1..Len(s) /\ l + 1 \in 1..Len(s) /\ r[k] = s[k + 1] /\ r[l] = s[l + 1]
    BY <1>3
  <2>4. /\ s[k + 1].pool # s[l + 1].pool /\ s[k + 1].pool \notin AboveIn(pa, s[l + 1].pool)
        /\ s[l + 1].at # "unlinked"
    BY <2>2, <2>3 DEF Stacked, Ordered
  <2> QED BY <2>3, <2>4
<1>5. ASSUME NEW i \in 1..Len(r)
      PROVE  /\ r[i] \in ToSet(s) /\ r[i].pool # Head(s).pool /\ r[i].at # "unlinked"
             /\ Head(s).pool \notin AboveIn(pa, r[i].pool)
  <2>1. r[i] = s[i + 1] /\ i + 1 \in 1..Len(s) /\ 1 \in 1..Len(s) /\ 1 < i + 1
    BY <1>3
  <2>2. s[1].pool # s[i + 1].pool /\ s[1].pool \notin AboveIn(pa, s[i + 1].pool) /\ s[i + 1].at # "unlinked"
    BY <2>1 DEF Stacked, Ordered
  <2> QED BY <1>1, <1>2, <2>1, <2>2
<1>6. ASSUME NEW i \in 1..Len(s), i # 1 PROVE s[i] \in ToSet(r)
  <2>1. i - 1 \in 1..Len(s) - 1 /\ i - 1 + 1 = i
    BY <1>1, <1>6
  <2>2. i - 1 \in 1..Len(r) /\ r[i - 1] = s[i]
    BY <1>1, <2>1
  <2> QED BY <1>2, <2>2
<1>7. Head(s) \in ToSet(s)
  BY <1>1, <1>2
<1>8. \A f \in ToSet(s) : f \in Frame /\ (f = Head(s) \/ f \in ToSet(r))
  BY <1>1, <1>2, <1>6
<1>9. Stacked(r, pa)
  BY <1>1, <1>4 DEF Stacked, Ordered
<1> QED BY <1>1, <1>2, <1>5, <1>7, <1>8, <1>9 DEF r

\* Other parents, for which nothing more is above the pools in question.
LEMMA StackSame ==
    ASSUME NEW s, NEW pa, Stacked(s, pa), NEW pb,
           \A f \in ToSet(s) : AboveIn(pb, f.pool) \subseteq AboveIn(pa, f.pool)
    PROVE  Stacked(s, pb)
<1>1. s \in Seq(Frame) /\ \A i \in 1..Len(s) : s[i] \in ToSet(s)
  BY InList DEF Stacked
<1> QED BY <1>1 DEF Stacked, Ordered

-------------------------------------------------------------------------------
\* The threads' stacks.

Calls(t) == ToSet(frames[t])

\* Only the stack of t has changed.
Moved(t, s) ==
    /\ frames' = [u \in Threads |-> frames'[u]]
    /\ frames'[t] = s /\ \A u \in Threads : u # t => frames'[u] = frames[u]

\* A call's next phase.
Now(f, at, calling) == [pool |-> f.pool, clear |-> f.clear, at |-> at, calling |-> calling]

LEMMA NowIs ==
    ASSUME NEW f \in Frame, NEW at \in {"pre", "children", "cleanups", "unlinked"}, NEW b \in BOOLEAN
    PROVE  /\ Now(f, at, b) \in Frame
           /\ Now(f, at, b).pool = f.pool /\ Now(f, at, b).clear = f.clear
           /\ Now(f, at, b).at = at /\ Now(f, at, b).calling = b
BY DEF Now, Frame

LEMMA NowCalling ==
    ASSUME NEW f \in Frame, NEW b \in BOOLEAN
    PROVE  [f EXCEPT !.calling = b] = Now(f, f.at, b) /\ Now(f, f.at, b) \in Frame
<1>1. f = [x \in {"pool", "clear", "at", "calling"} |-> f[x]]
  BY DEF Frame
<1>2. [f EXCEPT !.calling = b] = Now(f, f.at, b)
  BY <1>1 DEF Now
<1>3. f.at \in {"pre", "children", "cleanups", "unlinked"}
  BY DEF Frame
<1> QED BY <1>2, <1>3, NowIs

LEMMA NowAt ==
    ASSUME NEW f \in Frame, NEW at \in {"pre", "children", "cleanups", "unlinked"}
    PROVE  [f EXCEPT !.at = at] = Now(f, at, f.calling) /\ Now(f, at, f.calling) \in Frame
<1>1. f = [x \in {"pool", "clear", "at", "calling"} |-> f[x]]
  BY DEF Frame
<1>2. [f EXCEPT !.at = at] = Now(f, at, f.calling)
  BY <1>1 DEF Now
<1>3. f.calling \in BOOLEAN
  BY DEF Frame
<1> QED BY <1>2, <1>3, NowIs

LEMMA NowBoth ==
    ASSUME NEW f \in Frame, NEW at \in {"pre", "children", "cleanups", "unlinked"}
    PROVE  [[f EXCEPT !.calling = TRUE] EXCEPT !.at = at] = Now(f, at, TRUE) /\ Now(f, at, TRUE) \in Frame
<1> DEFINE g == Now(f, f.at, TRUE)
<1>1. [f EXCEPT !.calling = TRUE] = g /\ g \in Frame
  BY NowCalling
<1>2. g.pool = f.pool /\ g.clear = f.clear /\ g.calling = TRUE
  BY DEF Now
<1> HIDE DEF g
<1>3. [g EXCEPT !.at = at] = Now(g, at, g.calling) /\ Now(g, at, g.calling) \in Frame
  BY <1>1, NowAt
<1>4. Now(g, at, g.calling) = Now(f, at, TRUE)
  BY <1>2 DEF Now
<1> QED BY <1>1, <1>3, <1>4

LEMMA NewHead ==
    ASSUME NEW s \in Seq(Frame), s # <<>>, NEW g \in Frame, NEW r, r = [s EXCEPT ![1] = g]
    PROVE  r = <<g>> \o Tail(s)
<1> DEFINE d == <<g>> \o Tail(s)
<1>1. /\ Len(s) \in Nat \ {0} /\ s \in [1..Len(s) -> Frame]
      /\ Tail(s) \in Seq(Frame) /\ Len(Tail(s)) = Len(s) - 1
      /\ \A i \in 1..Len(s) - 1 : Tail(s)[i] = s[i + 1]
  BY TailProperties, LenProperties
<1>2. /\ r \in [1..Len(s) -> Frame] /\ r[1] = g
      /\ \A i \in 1..Len(s) : i # 1 => r[i] = s[i]
  BY <1>1
<1>3. r \in Seq(Frame) /\ Len(r) = Len(s)
  <2>1. r \in Seq(Frame)
    BY <1>1, <1>2, SeqDef
  <2> QED BY <1>1, <1>2, <2>1, LenProperties
<1>4. /\ d \in Seq(Frame) /\ Len(d) = Len(s)
      /\ \A i \in 1..Len(s) : d[i] = IF i = 1 THEN g ELSE Tail(s)[i - 1]
  <2>1. /\ d \in Seq(Frame) /\ Len(d) = Len(Tail(s)) + 1
        /\ \A i \in 1..Len(Tail(s)) + 1 : d[i] = IF i = 1 THEN g ELSE Tail(s)[i - 1]
    BY <1>1, ConsProperties
  <2>2. Len(Tail(s)) + 1 = Len(s)
    BY <1>1
  <2> QED BY <2>1, <2>2
<1> HIDE DEF d
<1>5. \A i \in 1..Len(r) : r[i] = d[i]
  <2> SUFFICES ASSUME NEW i \in 1..Len(s) PROVE r[i] = d[i]
    BY <1>3
  <2>1. CASE i = 1
    BY <1>2, <1>4, <2>1
  <2>2. CASE i # 1
    <3>1. i - 1 \in 1..Len(s) - 1 /\ i - 1 + 1 = i
      BY <1>1, <2>2
    <3>2. Tail(s)[i - 1] = s[i]
      BY <1>1, <3>1
    <3> QED BY <1>2, <1>4, <2>2, <3>2
  <2> QED BY <2>1, <2>2
<1>6. r = d
  BY <1>3, <1>4, <1>5, SeqEqual
<1> QED BY <1>6 DEF d

FramesTyped == frames \in [Threads -> Seq(Frame)]

LEMMA MovedIs ==
    ASSUME FramesTyped, NEW t \in Threads, NEW s, frames' = [frames EXCEPT ![t] = s]
    PROVE  Moved(t, s)
BY DEF FramesTyped, Moved

\* A cleanup function is called, returns, or the pool has left the tree.
LEMMA MovedRun ==
    ASSUME FramesTyped, NEW t \in Threads, frames[t] # <<>>,
           NEW at \in {"pre", "children", "cleanups", "unlinked"},
           frames' = [frames EXCEPT ![t][1].calling = TRUE, ![t][1].at = at]
    PROVE  Moved(t, <<Now(Head(frames[t]), at, TRUE)>> \o Tail(frames[t]))
<1> DEFINE s == frames[t]
           h == Head(s)
           g == Now(h, at, TRUE)
<1>1. s \in Seq(Frame) /\ h \in Frame /\ h = s[1] /\ Len(s) \in Nat \ {0}
  BY TailProperties DEF FramesTyped
<1>2. g \in Frame /\ g = [[h EXCEPT !.calling = TRUE] EXCEPT !.at = at]
  BY <1>1, NowBoth
<1>3. frames' = [frames EXCEPT ![t] = [s EXCEPT ![1] = [[s[1] EXCEPT !.calling = TRUE] EXCEPT !.at = at]]]
  BY <1>1 DEF FramesTyped
<1>4. frames' = [frames EXCEPT ![t] = [s EXCEPT ![1] = g]]
  BY <1>1, <1>2, <1>3
<1> HIDE DEF g, s
<1>5. [s EXCEPT ![1] = g] = <<g>> \o Tail(s)
  BY <1>1, <1>2, NewHead DEF s
<1>6. Moved(t, <<g>> \o Tail(s))
  BY <1>4, <1>5, MovedIs
<1> QED BY <1>6 DEF g, s

LEMMA MovedReturn ==
    ASSUME FramesTyped, NEW t \in Threads, frames[t] # <<>>,
           frames' = [frames EXCEPT ![t][1].calling = FALSE]
    PROVE  Moved(t, <<Now(Head(frames[t]), Head(frames[t]).at, FALSE)>> \o Tail(frames[t]))
<1> DEFINE s == frames[t]
           h == Head(s)
           g == Now(h, h.at, FALSE)
<1>1. s \in Seq(Frame) /\ h \in Frame /\ h = s[1] /\ Len(s) \in Nat \ {0}
  BY TailProperties DEF FramesTyped
<1>2. g \in Frame /\ g = [h EXCEPT !.calling = FALSE]
  BY <1>1, NowCalling
<1>3. frames' = [frames EXCEPT ![t] = [s EXCEPT ![1] = g]]
  BY <1>1, <1>2 DEF FramesTyped
<1> HIDE DEF g, s
<1>4. [s EXCEPT ![1] = g] = <<g>> \o Tail(s)
  BY <1>1, <1>2, NewHead DEF s
<1>5. Moved(t, <<g>> \o Tail(s))
  BY <1>3, <1>4, MovedIs
<1> QED BY <1>5 DEF g, s

LEMMA MovedUnlink ==
    ASSUME FramesTyped, NEW t \in Threads, frames[t] # <<>>,
           frames' = [frames EXCEPT ![t][1].at = "unlinked"]
    PROVE  Moved(t, <<Now(Head(frames[t]), "unlinked", Head(frames[t]).calling)>> \o Tail(frames[t]))
<1> DEFINE s == frames[t]
           h == Head(s)
           g == Now(h, "unlinked", h.calling)
<1>1. s \in Seq(Frame) /\ h \in Frame /\ h = s[1] /\ Len(s) \in Nat \ {0}
  BY TailProperties DEF FramesTyped
<1>2. g \in Frame /\ g = [h EXCEPT !.at = "unlinked"]
  BY <1>1, NowAt
<1>3. frames' = [frames EXCEPT ![t] = [s EXCEPT ![1] = g]]
  BY <1>1, <1>2 DEF FramesTyped
<1> HIDE DEF g, s
<1>4. [s EXCEPT ![1] = g] = <<g>> \o Tail(s)
  BY <1>1, <1>2, NewHead DEF s
<1>5. Moved(t, <<g>> \o Tail(s))
  BY <1>3, <1>4, MovedIs
<1> QED BY <1>5 DEF g, s

LEMMA MovedDown ==
    ASSUME FramesTyped, NEW t \in Threads, frames[t] # <<>>, NEW c \in Pools,
           frames' = [frames EXCEPT ![t] = <<Begun(c, FALSE), [Head(frames[t]) EXCEPT !.at = "children"]>>
                                                \o Tail(@)]
    PROVE  /\ Moved(t, <<Begun(c, FALSE)>> \o
                (<<Now(Head(frames[t]), "children", Head(frames[t]).calling)>> \o Tail(frames[t])))
<1> DEFINE s == frames[t]
           r == Tail(s)
           h == Head(s)
           g == Now(h, "children", h.calling)
           b == Begun(c, FALSE)
<1>1. s \in Seq(Frame) /\ h \in Frame /\ r \in Seq(Frame)
  BY TailProperties DEF FramesTyped
<1>2. g \in Frame /\ g = [h EXCEPT !.at = "children"]
  BY <1>1, NowAt
<1>3. b \in Frame
  BY DEF Begun, Frame
<1>4. frames' = [frames EXCEPT ![t] = <<b, g>> \o r]
  BY <1>2
<1> HIDE DEF g, s, b, r
<1> DEFINE x == <<b, g>> \o r
           y == <<g>> \o r
           z == <<b>> \o y
           n == Len(r)
<1>5. n \in Nat
  BY <1>1, LenProperties
<1>6. /\ y \in Seq(Frame) /\ Len(y) = n + 1
      /\ \A i \in 1..n + 1 : y[i] = IF i = 1 THEN g ELSE r[i - 1]
  BY <1>1, <1>2, ConsProperties
<1> HIDE DEF y
<1>7. /\ z \in Seq(Frame) /\ Len(z) = n + 1 + 1
      /\ \A i \in 1..n + 1 + 1 : z[i] = IF i = 1 THEN b ELSE y[i - 1]
  <2>1. /\ z \in Seq(Frame) /\ Len(z) = Len(y) + 1
        /\ \A i \in 1..Len(y) + 1 : z[i] = IF i = 1 THEN b ELSE y[i - 1]
    BY <1>3, <1>6, ConsProperties
  <2> QED BY <1>6, <2>1
<1>8. /\ x \in Seq(Frame) /\ Len(x) = 2 + n
      /\ \A i \in 1..2 + n : x[i] = IF i <= 2 THEN <<b, g>>[i] ELSE r[i - 2]
  <2>1. <<b, g>> \in Seq(Frame) /\ Len(<<b, g>>) = 2
    BY <1>2, <1>3
  <2> QED BY <1>1, <2>1, ConcatProperties
<1>9. <<b, g>>[1] = b /\ <<b, g>>[2] = g
  OBVIOUS
<1> HIDE DEF x, z, n
<1>10. ASSUME NEW i \in 1..n + 2 PROVE x[i] = z[i]
  <2>1. CASE i = 1
    BY <1>5, <1>7, <1>8, <1>9, <2>1
  <2>2. CASE i = 2
    BY <1>5, <1>6, <1>7, <1>8, <1>9, <2>2
  <2>3. CASE i # 1 /\ i # 2
    <3>1. i - 1 \in 1..n + 1 /\ i - 1 # 1 /\ i - 1 - 1 = i - 2 /\ ~(i <= 2) /\ i \in 1..2 + n /\ i \in 1..n + 1 + 1
      BY <1>5, <2>3
    <3>2. x[i] = r[i - 2] /\ z[i] = y[i - 1] /\ y[i - 1] = r[i - 2]
      BY <1>6, <1>7, <1>8, <2>3, <3>1
    <3> QED BY <3>2
  <2> QED BY <2>1, <2>2, <2>3
<1>11. x = z
  <2>1. Len(x) = n + 2 /\ Len(z) = n + 2
    BY <1>5, <1>7, <1>8
  <2> QED BY <1>7, <1>8, <1>10, <2>1, SeqEqual
<1>12. Moved(t, z)
  BY <1>4, <1>11, MovedIs DEF x
<1> QED BY <1>12 DEF z, y, g, s, b, r

-------------------------------------------------------------------------------
\* The invariant of the tree and of the calls.

Kids(p) == ToSet(child[p])
Unlinked(p) == \E t \in Threads : \E f \in Calls(t) : f.pool = p /\ f.at = "unlinked"

TreeTyped ==
    /\ Parents(parent) /\ owner \in [Pools -> Threads \cup {NULL}]
    /\ DOMAIN child = Pools /\ child = [p \in Pools |-> child[p]]
    /\ \A p \in Pools : Lists(child[p], Pools, Kids(p))
    /\ \A p \in Pools : p = Global \/ ~Exists(p) => parent[p] = NULL /\ owner[p] = NULL

ChildrenSound ==
    \A p \in Pools : \A q \in Kids(p) : parent[q] = p /\ Exists(q) /\ ~Unlinked(q)

\* Each pool but the global one is below it.  A thread's pools are below each other or
\* below the global one.
ChildOf(p, q) ==
    /\ q \in Pools /\ Exists(q) /\ owner[p] \in Threads
    /\ q = Global \/ owner[q] = owner[p]
    /\ p \in Kids(q) \/ Unlinked(p)

ParentsSound ==
    /\ \A p \in Pools : Exists(p) /\ p # Global =>
        ChildOf(p, parent[p]) /\ Global \in AboveIn(parent, p)
    /\ \A p \in Pools : p \notin AboveIn(parent, p)

TreeSoundly == TreeTyped /\ ChildrenSound /\ ParentsSound

\* A call of thread t: what it is past is done.
FrameOK(t, f) ==
    /\ Exists(f.pool)
    /\ f.pool = Global => ~f.clear /\ users = {}
    /\ f.pool # Global /\ users # {} => owner[f.pool] = t
    /\ f.at # "pre" => preCleanups[f.pool] = <<>>
    /\ f.at \in {"cleanups", "unlinked"} => child[f.pool] = <<>>
    /\ f.at = "unlinked" =>
        ~f.calling /\ ~f.clear /\ cleanups[f.pool] = <<>> /\ spare[f.pool] = <<>>

FramesSound ==
    /\ FramesTyped
    /\ \A t \in Threads : Stacked(frames[t], parent)
    /\ \A t \in Threads : \A f \in Calls(t) : FrameOK(t, f)

\* Who is not counted does nothing, but for the last one's terminate().
UsersSound ==
    /\ users \subseteq Threads /\ deleted \in BOOLEAN
    /\ users = {} => \A t, u \in Threads : frames[t] # <<>> /\ frames[u] # <<>> => t = u
    /\ users # {} => \A t \in Threads : t \notin users => frames[t] = <<>>
    /\ ~Exists(Global) => users = {} /\ \A p \in Pools : ~Exists(p)
    /\ deleted => ~Exists(Global) /\ heap = {}

InCall(t) == IF frames[t] = <<>> THEN t \in users ELSE Head(frames[t]).calling

\* While a thread makes a child, nobody goes on with the parent's end.
Maker(t, p) ==
    /\ p \in Pools /\ Exists(p)
    /\ p = Global \/ owner[p] = t
    /\ InCall(t)
    /\ \A u \in Threads : \A f \in Calls(u) : f.pool = p => f.at \in {"pre", "children"}

MakingSound == \A t \in Threads : making[t] # <<>> => Maker(t, making[t][1])

CallsSound == FramesSound /\ UsersSound /\ MakingSound

-------------------------------------------------------------------------------
\* What follows of the calls.

LEMMA CallsIs ==
    ASSUME FramesSound, NEW t \in Threads
    PROVE  /\ Stacked(frames[t], parent) /\ frames[t] \in Seq(Frame)
           /\ \A f \in Calls(t) : f \in Frame /\ f.pool \in Pools /\ FrameOK(t, f)
           /\ frames[t] = <<>> <=> Calls(t) = {}
           /\ frames[t] # <<>> => Head(frames[t]) \in Calls(t)
<1>1. Stacked(frames[t], parent) /\ frames[t] \in Seq(Frame)
  BY DEF FramesSound, FramesTyped
<1>2. frames[t] # <<>> => Head(frames[t]) \in Calls(t)
  BY <1>1, StackTail DEF Calls
<1>3. frames[t] = <<>> => Calls(t) = {}
  BY StackEmpty DEF Calls
<1>4. \A f \in Calls(t) : f \in Frame
  BY <1>1, InList DEF Calls
<1>5. \A f \in Frame : f.pool \in Pools
  BY DEF Frame
<1> QED BY <1>1, <1>2, <1>3, <1>4, <1>5 DEF FramesSound

\* Nobody else has a call on the pool that a thread may use,
LEMMA OnlyMine ==
    ASSUME CallsSound, NEW t \in Threads, frames[t] # <<>> \/ t \in users,
           NEW p \in Pools, p = Global \/ owner[p] = t,
           NEW u \in Threads, NEW f \in Calls(u), f.pool = p
    PROVE  u = t
<1>1. FrameOK(u, f) /\ frames[u] # <<>>
  BY CallsIs DEF CallsSound
<1>2. CASE users = {}
  BY <1>1, <1>2 DEF CallsSound, UsersSound
<1>3. CASE users # {}
  BY <1>1, <1>3 DEF FrameOK
<1> QED BY <1>2, <1>3

\* ... or on the one its innermost call works on.
LEMMA OnlyHead ==
    ASSUME CallsSound, NEW t \in Threads, frames[t] # <<>>,
           NEW u \in Threads, NEW f \in Calls(u), f.pool = Head(frames[t]).pool
    PROVE  u = t /\ f = Head(frames[t])
<1> DEFINE h == Head(frames[t])
<1>1. FrameOK(u, f) /\ frames[u] # <<>> /\ h \in Calls(t) /\ FrameOK(t, h)
  BY CallsIs DEF CallsSound
<1> HIDE DEF h
<1>2. f.pool = h.pool
  BY DEF h
<1>3. u = t
  <2>1. CASE users = {}
    BY <1>1, <2>1 DEF CallsSound, UsersSound
  <2>2. CASE users # {}
    BY <1>1, <1>2, <2>2 DEF FrameOK
  <2> QED BY <2>1, <2>2
<1>4. f = h
  <2>1. Stacked(frames[t], parent)
    BY CallsIs DEF CallsSound
  <2>2. f = Head(frames[t]) \/ f \in ToSet(Tail(frames[t]))
    BY <1>3, <2>1, StackTail DEF Calls
  <2>3. \A e \in ToSet(Tail(frames[t])) : e.pool # Head(frames[t]).pool
    BY <2>1, StackTail
  <2> QED BY <2>2, <2>3 DEF h
<1> QED BY <1>3, <1>4 DEF h

\* While the innermost call is about to go on, nobody makes a child of its pool.
LEMMA NoMaking ==
    ASSUME CallsSound, NEW t \in Threads, frames[t] # <<>>, ~Head(frames[t]).calling
    PROVE  /\ making[t] = <<>>
           /\ \A u \in Threads : making[u] # <<>> => u # t /\ making[u][1] # Head(frames[t]).pool
<1>1. making[t] = <<>>
  BY DEF CallsSound, MakingSound, Maker, InCall
<1>2. ASSUME NEW u \in Threads, making[u] # <<>>, making[u][1] = Head(frames[t]).pool PROVE FALSE
  <2>1. /\ making[u][1] \in Pools /\ (making[u][1] = Global \/ owner[making[u][1]] = u)
        /\ InCall(u)
    BY <1>2 DEF CallsSound, MakingSound, Maker
  <2>2. frames[u] # <<>> \/ u \in users
    BY <2>1 DEF InCall
  <2>3. Head(frames[t]) \in Calls(t)
    BY CallsIs DEF CallsSound
  <2>4. t = u
    BY <1>2, <2>1, <2>2, <2>3, OnlyMine
  <2> QED BY <1>1, <1>2, <2>4
<1> QED BY <1>1, <1>2

\* As long as there is something to do, there is an allocator.
LEMMA Alive ==
    ASSUME CallsSound, NEW t \in Threads, frames[t] # <<>> \/ t \in users
    PROVE  ~deleted /\ Exists(Global)
<1>1. Exists(Global)
  <2>1. CASE t \in users
    BY <2>1 DEF CallsSound, UsersSound
  <2>2. CASE frames[t] # <<>>
    <3>1. Head(frames[t]).pool \in Pools /\ Exists(Head(frames[t]).pool)
      BY <2>2, CallsIs DEF CallsSound, FrameOK
    <3> QED BY <3>1 DEF CallsSound, UsersSound
  <2> QED BY <2>1, <2>2
<1> QED BY <1>1 DEF CallsSound, UsersSound

\* Where the innermost call is.
LEMMA ReachedIs ==
    ASSUME CallsSound, NEW t \in Threads, NEW phase, Reached(t, phase)
    PROVE  LET h == Head(frames[t])
               p == h.pool
           IN  /\ frames[t] # <<>> /\ h \in Calls(t) /\ h \in Frame /\ ~h.calling /\ p \in Pools
               /\ Exists(p) /\ FrameOK(t, h)
               /\ phase # "free" => h.at # "unlinked"
               /\ phase = "pre" => h.at = "pre" /\ preCleanups[p] # <<>>
               /\ phase = "children" => /\ child[p] # <<>> /\ preCleanups[p] = <<>>
                                        /\ h.at \in {"pre", "children"}
               /\ phase = "cleanups" => child[p] = <<>> /\ preCleanups[p] = <<>> /\ cleanups[p] # <<>>
               /\ phase = "end" => child[p] = <<>> /\ preCleanups[p] = <<>> /\ cleanups[p] = <<>>
               /\ phase = "free" => h.at = "unlinked"
<1> DEFINE h == Head(frames[t])
           p == h.pool
<1>1. frames[t] # <<>> /\ ~h.calling
  BY DEF Reached
<1>2. h \in Calls(t) /\ h \in Frame /\ p \in Pools /\ FrameOK(t, h)
  BY <1>1, CallsIs DEF CallsSound
<1>3. h.at \in {"pre", "children", "cleanups", "unlinked"}
  BY <1>2 DEF Frame
<1>4. phase = IF h.at = "pre" /\ preCleanups[p] # <<>> THEN "pre"
              ELSE IF h.at \in {"pre", "children"} /\ child[p] # <<>> THEN "children"
              ELSE IF h.at \in {"pre", "children", "cleanups"} /\ cleanups[p] # <<>>
                   THEN "cleanups"
              ELSE IF h.at = "unlinked" THEN "free" ELSE "end"
  BY DEF Reached
<1> HIDE DEF h
<1>5. /\ h.at # "pre" => preCleanups[p] = <<>>
      /\ h.at \in {"cleanups", "unlinked"} => child[p] = <<>>
      /\ h.at = "unlinked" => cleanups[p] = <<>>
      /\ Exists(p)
  BY <1>2 DEF FrameOK
<1>6. /\ phase # "free" => h.at # "unlinked"
      /\ phase = "pre" => h.at = "pre" /\ preCleanups[p] # <<>>
      /\ phase = "children" => child[p] # <<>> /\ preCleanups[p] = <<>> /\ h.at \in {"pre", "children"}
      /\ phase = "cleanups" => child[p] = <<>> /\ preCleanups[p] = <<>> /\ cleanups[p] # <<>>
      /\ phase = "end" => child[p] = <<>> /\ preCleanups[p] = <<>> /\ cleanups[p] = <<>>
      /\ phase = "free" => h.at = "unlinked"
  BY <1>3, <1>4, <1>5
<1> QED BY <1>1, <1>2, <1>5, <1>6 DEF h

LEMMA CallingIs == \A t : Calling(t) <=> making[t] = <<>> /\ InCall(t)
BY DEF Calling, InCall

LEMMA AtIs ==
    ASSUME FramesSound, NEW t \in Threads, NEW p
    PROVE  /\ \A a : a \in At(t, p) <=> \E f \in Calls(t) : f.pool = p /\ f.at = a
           /\ \A q : q \in Busy(t) <=> \E f \in Calls(t) : f.pool = q
<1>1. frames[t] \in Seq(Frame) /\ DOMAIN frames[t] = 1..Len(frames[t])
  BY LenProperties DEF FramesSound, FramesTyped
<1>2. \A f : f \in Calls(t) <=> \E k \in DOMAIN frames[t] : frames[t][k] = f
  BY <1>1, InList DEF Calls
<1> QED BY <1>2 DEF At, Busy

\* A call that calls a cleanup function, or another, has not left the tree.
LEMMA NotUnlinked ==
    ASSUME CallsSound, NEW t \in Threads, InCall(t), NEW f \in Calls(t)
    PROVE  f.at # "unlinked"
<1>1. frames[t] # <<>> /\ Stacked(frames[t], parent) /\ FrameOK(t, f)
  BY CallsIs DEF CallsSound
<1>2. f = Head(frames[t]) \/ f \in ToSet(Tail(frames[t]))
  BY <1>1, StackTail DEF Calls
<1>3. f \in ToSet(Tail(frames[t])) => f.at # "unlinked"
  BY <1>1, StackTail
<1>4. f = Head(frames[t]) => f.at # "unlinked"
  BY <1>1 DEF InCall, FrameOK
<1> QED BY <1>2, <1>3, <1>4

-------------------------------------------------------------------------------
\* Steps that leave the tree alone.

LEMMA TreeFrame ==
    ASSUME TreeSoundly, UNCHANGED <<owner, parent, child>>,
           \A p \in Pools : (Exists(p)' <=> Exists(p)) /\ (Unlinked(p)' <=> Unlinked(p))
    PROVE  TreeSoundly'
<1>1. \A p : Kids(p)' = Kids(p)
  BY DEF Kids
<1>2. TreeTyped'
  BY <1>1 DEF TreeSoundly, TreeTyped
<1>3. ChildrenSound'
  <2> SUFFICES ASSUME NEW p \in Pools, NEW q \in Kids(p) PROVE parent[q] = p /\ Exists(q)' /\ ~Unlinked(q)'
    BY <1>1 DEF ChildrenSound
  <2>1. q \in Pools
    BY ListsIs DEF TreeSoundly, TreeTyped
  <2> QED BY <2>1 DEF TreeSoundly, ChildrenSound
<1>4. ParentsSound'
  <2>1. ASSUME NEW p \in Pools, Exists(p)', p # Global PROVE ChildOf(p, parent[p])'
    <3>1. ChildOf(p, parent[p])
      BY <2>1 DEF TreeSoundly, ParentsSound
    <3> QED BY <1>1, <3>1 DEF ChildOf
  <2> QED BY <2>1 DEF TreeSoundly, ParentsSound
<1> QED BY <1>2, <1>3, <1>4 DEF TreeSoundly

LEMMA UnlinkedFrame ==
    ASSUME frames' = frames
    PROVE  \A p : Unlinked(p)' <=> Unlinked(p)
BY DEF Unlinked, Calls

LEMMA FrameKept ==
    ASSUME NEW t, NEW f, FrameOK(t, f), Exists(f.pool)', owner'[f.pool] = owner[f.pool],
           users = {} <=> users' = {},
           f.at # "pre" /\ preCleanups[f.pool] = <<>> => preCleanups'[f.pool] = <<>>,
           f.at \in {"cleanups", "unlinked"} /\ child[f.pool] = <<>> => child'[f.pool] = <<>>,
           f.at = "unlinked" /\ cleanups[f.pool] = <<>> => cleanups'[f.pool] = <<>>,
           f.at = "unlinked" /\ spare[f.pool] = <<>> => spare'[f.pool] = <<>>
    PROVE  FrameOK(t, f)'
BY DEF FrameOK

\* Memory, cleanups: what a thread does with a pool of its own.
LEMMA CallsUse ==
    ASSUME CallsSound, TreeSoundly, NEW t \in Threads, NEW p \in Pools, Uses(t, p),
           UNCHANGED <<owner, parent, child, frames, making, users, deleted>>,
           \A q \in Pools : Exists(q)' <=> Exists(q),
           \A q \in Pools : q # p => /\ preCleanups'[q] = preCleanups[q] /\ cleanups'[q] = cleanups[q]
                                     /\ spare'[q] = spare[q],
           At(t, p) \subseteq {"pre"} \/ (preCleanups[p] = <<>> => preCleanups'[p] = <<>>)
    PROVE  CallsSound' /\ TreeSoundly' /\ ~deleted
<1>1. InCall(t) /\ Exists(p) /\ owner[p] = t
  BY CallingIs DEF Uses
<1>2. frames[t] # <<>> \/ t \in users
  BY <1>1 DEF InCall
<1>3. ~deleted
  BY <1>2, Alive
<1>4. ASSUME NEW u \in Threads, NEW f \in Calls(u) PROVE FrameOK(u, f)'
  <2>1. FrameOK(u, f) /\ f.pool \in Pools /\ Exists(f.pool)'
    BY CallsIs DEF CallsSound, FrameOK
  <2>2. CASE f.pool # p
    BY <2>1, <2>2, FrameKept
  <2>3. CASE f.pool = p
    <3>1. u = t
      BY <1>1, <1>2, <2>3, OnlyMine
    <3>2. f.at # "unlinked"
      BY <1>1, <3>1, NotUnlinked
    <3>3. f.at \in At(t, p)
      BY <2>3, <3>1, AtIs DEF CallsSound
    <3>4. f.at # "pre" /\ preCleanups[f.pool] = <<>> => preCleanups'[f.pool] = <<>>
      BY <2>3, <3>3
    <3> QED BY <2>1, <3>2, <3>4, FrameKept
  <2> QED BY <2>2, <2>3
<1>5. \A u : Calls(u)' = Calls(u) /\ (InCall(u)' <=> InCall(u))
  BY DEF Calls, InCall
<1>6. FramesSound'
  BY <1>4, <1>5 DEF CallsSound, FramesSound, FramesTyped
<1>7. UsersSound'
  <2>1. Global \in Pools
    BY PoolAssumption
  <2> QED BY <1>3, <2>1 DEF CallsSound, UsersSound
<1>8. MakingSound'
  <2> SUFFICES ASSUME NEW u \in Threads, making[u] # <<>> PROVE Maker(u, making[u][1])'
    BY DEF MakingSound
  <2>1. Maker(u, making[u][1])
    BY DEF CallsSound, MakingSound
  <2> QED BY <1>5, <2>1 DEF Maker
<1>9. TreeSoundly'
  BY UnlinkedFrame, TreeFrame
<1> QED BY <1>3, <1>6, <1>7, <1>8, <1>9 DEF CallsSound

-------------------------------------------------------------------------------
\* make_child.

LEMMA CallsMake ==
    ASSUME CallsSound, TreeSoundly, DOMAIN making = Threads, NEW t \in Threads, NEW p \in Pools, NEW n,
           Calling(t), Exists(p), p = Global \/ owner[p] = t, At(t, p) \subseteq {"pre", "children"},
           making' = [making EXCEPT ![t] = <<p, n>>],
           UNCHANGED <<owner, parent, child, preCleanups, cleanups, spare, frames, users, deleted>>,
           \A q \in Pools : Exists(q)' <=> Exists(q)
    PROVE  CallsSound' /\ TreeSoundly'
<1>1. InCall(t) /\ making[t] = <<>>
  BY CallingIs
<1>2. frames[t] # <<>> \/ t \in users
  BY <1>1 DEF InCall
<1>3. ~deleted
  BY <1>2, Alive
<1>4. \A u : Calls(u)' = Calls(u) /\ (InCall(u)' <=> InCall(u))
  BY DEF Calls, InCall
<1>5. ASSUME NEW u \in Threads, NEW f \in Calls(u) PROVE FrameOK(u, f)'
  <2>1. FrameOK(u, f) /\ f.pool \in Pools /\ Exists(f.pool)'
    BY CallsIs DEF CallsSound, FrameOK
  <2> QED BY <2>1, FrameKept
<1>6. FramesSound'
  BY <1>4, <1>5 DEF CallsSound, FramesSound, FramesTyped
<1>7. UsersSound'
  <2>1. Global \in Pools
    BY PoolAssumption
  <2> QED BY <1>3, <2>1 DEF CallsSound, UsersSound
<1>8. making'[t] = <<p, n>> /\ \A u \in Threads : u # t => making'[u] = making[u]
  OBVIOUS
<1>9. <<p, n>>[1] = p
  OBVIOUS
<1>10. ASSUME NEW u \in Threads, NEW f \in Calls(u), f.pool = p PROVE f.at \in {"pre", "children"}
  <2>1. u = t
    BY <1>2, <1>10, OnlyMine
  <2>2. f.at \in At(t, p)
    BY <1>10, <2>1, AtIs DEF CallsSound
  <2> QED BY <2>2
<1>11. MakingSound'
  <2>1. Maker(t, p)'
    BY <1>1, <1>4, <1>10 DEF Maker
  <2>2. ASSUME NEW u \in Threads, NEW q, Maker(u, q) PROVE Maker(u, q)'
    BY <1>4, <2>2 DEF Maker
  <2>3. making'[t][1] = p
    BY <1>8, <1>9
  <2> SUFFICES ASSUME NEW u \in Threads, making'[u] # <<>> PROVE Maker(u, making[u][1])'
    BY DEF MakingSound
  <2>4. CASE u = t
    BY <2>1, <2>3, <2>4 DEF Maker
  <2>5. CASE u # t
    <3>1. making'[u] = making[u] /\ Maker(u, making[u][1])
      BY <1>8, <2>5 DEF CallsSound, MakingSound
    <3> QED BY <2>2, <3>1 DEF Maker
  <2> QED BY <2>4, <2>5
<1>12. TreeSoundly'
  BY UnlinkedFrame, TreeFrame
<1> QED BY <1>6, <1>7, <1>11, <1>12 DEF CallsSound

\* What exists is below what exists.
Existing == {q \in Pools : Exists(q)}

LEMMA AboveExists ==
    ASSUME TreeSoundly
    PROVE  /\ Existing \in SUBSET Pools /\ UpwardIn(parent, Existing)
           /\ \A p \in Pools : parent[p] \in Existing \cup {NULL}
           /\ \A p \in Pools : AboveIn(parent, p) \subseteq Existing
<1>1. ASSUME NEW p \in Pools PROVE parent[p] \in Existing \cup {NULL}
  BY DEF TreeSoundly, TreeTyped, ParentsSound, ChildOf, Existing
<1>2. UpwardIn(parent, Existing)
  BY <1>1 DEF UpwardIn, Existing
<1>3. Existing \in SUBSET Pools
  BY DEF Existing
<1>4. \A p \in Pools : AboveIn(parent, p) \subseteq Existing
  BY <1>1, <1>2, <1>3, AboveLeast
<1> QED BY <1>1, <1>2, <1>3, <1>4

LEMMA NoKids ==
    ASSUME TreeSoundly, NEW q \in Pools, ~Exists(q)
    PROVE  Kids(q) = {} /\ \A p \in Pools : q \notin Kids(p)
<1>1. ASSUME NEW x \in Kids(q) PROVE FALSE
  <2>1. x \in Pools /\ parent[x] = q /\ Exists(x)
    BY ListsIs DEF TreeSoundly, TreeTyped, ChildrenSound
  <2>2. q \in Existing \cup {NULL}
    BY <2>1, AboveExists
  <2>3. NULL \notin Pools
    BY PoolAssumption
  <2> QED BY <2>2, <2>3 DEF Existing
<1>2. \A p \in Pools : q \notin Kids(p)
  BY DEF TreeSoundly, ChildrenSound
<1> QED BY <1>1, <1>2

\* A new pool q gets below p.
Linked(p, q) ==
    /\ Parents(parent') /\ parent'[q] = p /\ \A r \in Pools : r # q => parent'[r] = parent[r]

LEMMA AboveLinked ==
    ASSUME TreeSoundly, NEW p \in Pools, Exists(p), NEW q \in Pools, ~Exists(q), Linked(p, q)
    PROVE  /\ \A r \in Pools : r # q => AboveIn(parent', r) = AboveIn(parent, r)
           /\ q \notin AboveIn(parent', q)
           /\ Global \in AboveIn(parent', q)
<1>1. /\ Existing \in SUBSET Pools /\ UpwardIn(parent, Existing)
      /\ \A r \in Pools : AboveIn(parent, r) \subseteq Existing
  BY AboveExists
<1>2. q \notin Existing /\ p \in Existing
  BY DEF Existing
<1>3. \A r \in Pools : r # q => AboveIn(parent', r) = AboveIn(parent, r)
  <2> SUFFICES ASSUME NEW r \in Pools, r # q PROVE AboveIn(parent', r) = AboveIn(parent, r)
    OBVIOUS
  <2>1. \A x \in AboveIn(parent, r) : parent'[x] = parent[x]
    BY <1>1, <1>2 DEF Linked
  <2>2. parent'[r] = parent[r] /\ Parents(parent)
    BY DEF Linked, TreeSoundly, TreeTyped
  <2> QED BY <2>1, <2>2, AboveSame
<1>4. q \notin AboveIn(parent', q)
  <2>1. UpwardIn(parent', Existing) /\ parent'[q] \in Existing \cup {NULL}
    BY <1>1, <1>2 DEF UpwardIn, Linked
  <2>2. AboveIn(parent', q) \subseteq Existing
    BY <1>1, <2>1, AboveLeast
  <2> QED BY <1>2, <2>2
<1>5. Global \in AboveIn(parent', q)
  <2>1. p \in AboveIn(parent', q)
    <3>1. p \in AboveIn(parent', q) \cup {NULL} /\ p # NULL
      BY AboveUpward, PoolAssumption DEF Linked
    <3> QED BY <3>1
  <2>2. p # Global => Global \in AboveIn(parent, p)
    BY DEF TreeSoundly, ParentsSound
  <2>3. AboveIn(parent', p) \subseteq AboveIn(parent', q)
    BY <2>1, AboveOf DEF Linked
  <2>4. p # q
    BY <1>2
  <2>5. AboveIn(parent', p) = AboveIn(parent, p)
    BY <1>3, <2>4
  <2> QED BY <2>1, <2>2, <2>3, <2>5
<1> QED BY <1>3, <1>4, <1>5

LEMMA CallsLink ==
    ASSUME CallsSound, TreeSoundly, DOMAIN making = Threads, NEW t \in Threads, making[t] # <<>>,
           NEW q \in Pools, ~Exists(q), NEW p, p = making[t][1],
           making' = [making EXCEPT ![t] = <<>>],
           parent' = [parent EXCEPT ![q] = p], owner' = [owner EXCEPT ![q] = t],
           child' = [child EXCEPT ![p] = <<q>> \o child[p]],
           UNCHANGED <<preCleanups, cleanups, spare, frames, users, deleted>>,
           Exists(q)', \A r \in Pools : r # q => (Exists(r)' <=> Exists(r))
    PROVE  CallsSound' /\ TreeSoundly'
<1>1. /\ p \in Pools /\ Exists(p) /\ (p = Global \/ owner[p] = t) /\ InCall(t)
      /\ \A u \in Threads : \A f \in Calls(u) : f.pool = p => f.at \in {"pre", "children"}
  BY DEF CallsSound, MakingSound, Maker
<1>2. Global \in Pools /\ NULL \notin Pools /\ Exists(Global) /\ ~deleted
  BY <1>1, PoolAssumption, Alive DEF InCall
<1>3. q # p /\ q # Global
  BY <1>1, <1>2
<1>4. /\ TreeTyped /\ ChildrenSound /\ ParentsSound
  BY DEF TreeSoundly
<1>5. Linked(p, q)
  <2>1. parent \in [Pools -> Pools \cup {NULL}]
    BY <1>4 DEF TreeTyped, Parents
  <2> QED BY <1>1, <2>1 DEF Linked, Parents
<1>6. owner' \in [Pools -> Threads \cup {NULL}] /\ owner'[q] = t /\ \A r \in Pools : r # q => owner'[r] = owner[r]
  BY <1>4 DEF TreeTyped
<1>7. /\ DOMAIN child' = Pools /\ child' = [r \in Pools |-> child'[r]]
      /\ child'[p] = <<q>> \o child[p] /\ \A r \in Pools : r # p => child'[r] = child[r]
  BY <1>1, <1>4 DEF TreeTyped
<1>8. Kids(q) = {} /\ \A r \in Pools : q \notin Kids(r)
  BY NoKids
<1>9. Lists(child'[p], Pools, Plus(Kids(p), q))
  BY <1>1, <1>4, <1>7, <1>8, ListsCons DEF TreeTyped
<1>10. Kids(p)' = Plus(Kids(p), q) /\ \A r \in Pools : r # p => Kids(r)' = Kids(r)
  BY <1>7, <1>9 DEF Kids, Lists
<1>11. \A u \in Threads : \A f \in Calls(u) : f.pool \in Pools /\ f.pool # q /\ Exists(f.pool) /\ FrameOK(u, f)
  BY CallsIs DEF CallsSound, FrameOK
<1>12. \A u : Calls(u)' = Calls(u) /\ (InCall(u)' <=> InCall(u))
  BY DEF Calls, InCall
<1>13. (\A r : Unlinked(r)' <=> Unlinked(r)) /\ ~Unlinked(q)
  BY <1>11, UnlinkedFrame DEF Unlinked
<1>14. /\ \A r \in Pools : r # q => AboveIn(parent', r) = AboveIn(parent, r)
       /\ q \notin AboveIn(parent', q) /\ Global \in AboveIn(parent', q)
  BY <1>1, <1>5, AboveLinked
<1>15. TreeTyped'
  <2>1. ASSUME NEW r \in Pools PROVE Lists(child'[r], Pools, Kids(r)')
    <3>1. CASE r = p
      BY <1>9, <1>10, <3>1
    <3>2. CASE r # p
      <4>1. child'[r] = child[r] /\ Kids(r)' = Kids(r)
        BY <1>7, <1>10, <3>2
      <4> QED BY <1>4, <4>1 DEF TreeTyped
    <3> QED BY <3>1, <3>2
  <2>2. ASSUME NEW r \in Pools, r = Global \/ ~Exists(r)' PROVE parent'[r] = NULL /\ owner'[r] = NULL
    BY <1>3, <1>4, <1>5, <1>6, <2>2 DEF TreeTyped, Linked
  <2> QED BY <1>5, <1>6, <1>7, <2>1, <2>2 DEF TreeTyped, Linked
<1>16. ChildrenSound'
  <2> SUFFICES ASSUME NEW r \in Pools, NEW x \in Kids(r)' PROVE parent'[x] = r /\ Exists(x)' /\ ~Unlinked(x)'
    BY DEF ChildrenSound
  <2>1. CASE r = p /\ x = q
    BY <1>5, <1>13, <2>1 DEF Linked
  <2>2. CASE ~(r = p /\ x = q)
    <3>1. x \in Kids(r)
      BY <1>10, <2>2 DEF Plus
    <3>2. x \in Pools /\ x # q
      BY <1>4, <1>8, <3>1, ListsIs DEF TreeTyped
    <3> QED BY <1>4, <1>5, <1>13, <3>1, <3>2 DEF ChildrenSound, Linked
  <2> QED BY <2>1, <2>2
<1>17. ParentsSound'
  <2>1. ChildOf(q, p)'
    BY <1>1, <1>3, <1>6, <1>10 DEF ChildOf, Plus
  <2>2. ASSUME NEW r \in Pools, r # q, NEW x, x # q, ChildOf(r, x) PROVE ChildOf(r, x)'
    <3>1. x \in Pools /\ Exists(x) /\ Exists(x)' /\ owner'[x] = owner[x] /\ owner'[r] = owner[r]
      BY <1>6, <2>2 DEF ChildOf
    <3>2. r \in Kids(x) => r \in Kids(x)'
      BY <1>10, <3>1 DEF Plus
    <3> QED BY <1>13, <2>2, <3>1, <3>2 DEF ChildOf
  <2>3. ASSUME NEW r \in Pools, Exists(r)', r # Global
        PROVE  ChildOf(r, parent[r])' /\ Global \in AboveIn(parent', r)
    <3>1. CASE r = q
      <4>1. parent'[r] = p
        BY <1>5, <3>1 DEF Linked
      <4> QED BY <1>14, <2>1, <3>1, <4>1 DEF ChildOf
    <3>2. CASE r # q
      <4>1. ChildOf(r, parent[r]) /\ Global \in AboveIn(parent, r)
        BY <1>4, <2>3, <3>2 DEF ParentsSound
      <4>2. parent[r] # q /\ parent'[r] = parent[r]
        BY <1>5, <3>2, <4>1 DEF Linked, ChildOf
      <4>3. Global \in AboveIn(parent', r)
        BY <1>14, <3>2, <4>1
      <4>4. \A x : x = parent[r] => ChildOf(r, x)'
        BY <2>2, <3>2, <4>1, <4>2
      <4> QED BY <4>2, <4>3, <4>4 DEF ChildOf
    <3> QED BY <3>1, <3>2
  <2>4. \A r \in Pools : r \notin AboveIn(parent', r)
    BY <1>4, <1>14 DEF ParentsSound
  <2> QED BY <2>3, <2>4 DEF ParentsSound
<1>18. FramesSound'
  <2>1. ASSUME NEW u \in Threads PROVE Stacked(frames[u], parent')
    <3>1. Stacked(frames[u], parent)
      BY CallsIs DEF CallsSound
    <3>2. \A f \in ToSet(frames[u]) : AboveIn(parent', f.pool) \subseteq AboveIn(parent, f.pool)
      BY <1>11, <1>14 DEF Calls
    <3> QED BY <3>1, <3>2, StackSame
  <2>2. ASSUME NEW u \in Threads, NEW f \in Calls(u) PROVE FrameOK(u, f)'
    <3>1. f.pool \in Pools /\ f.pool # q /\ Exists(f.pool)' /\ FrameOK(u, f) /\ owner'[f.pool] = owner[f.pool]
      BY <1>6, <1>11
    <3>2. f.at \in {"cleanups", "unlinked"} => child'[f.pool] = child[f.pool]
      BY <1>1, <1>7, <3>1
    <3> QED BY <3>1, <3>2, FrameKept
  <2> QED BY <1>12, <2>1, <2>2 DEF CallsSound, FramesSound, FramesTyped
<1>19. UsersSound'
  BY <1>2, <1>3 DEF CallsSound, UsersSound
<1>20. MakingSound'
  <2>1. ASSUME NEW u \in Threads, NEW x, Maker(u, x) PROVE Maker(u, x)'
    <3>1. x # q
      BY <2>1 DEF Maker
    <3> QED BY <1>6, <1>12, <2>1, <3>1 DEF Maker
  <2> SUFFICES ASSUME NEW u \in Threads, making'[u] # <<>> PROVE Maker(u, making[u][1])'
    BY DEF MakingSound
  <2>2. u # t /\ making'[u] = making[u]
    OBVIOUS
  <2>3. Maker(u, making[u][1])
    BY <2>2 DEF CallsSound, MakingSound
  <2> QED BY <2>1, <2>2, <2>3 DEF Maker
<1> QED BY <1>15, <1>16, <1>17, <1>18, <1>19, <1>20 DEF TreeSoundly, CallsSound

-------------------------------------------------------------------------------
\* Steps that change the stack of one thread.

LEMMA MovedCalls ==
    ASSUME FramesTyped, NEW t \in Threads, NEW s, Moved(t, s)
    PROVE  /\ Calls(t)' = ToSet(s) /\ \A u \in Threads : u # t => Calls(u)' = Calls(u)
           /\ \A u \in Threads : u # t => frames'[u] = frames[u]
           /\ frames'[t] = s
BY DEF Moved, Calls

LEMMA FramesMoved ==
    ASSUME CallsSound, NEW t \in Threads, NEW s, Moved(t, s), Stacked(s, parent'),
           \A u \in Threads : u # t => Stacked(frames[u], parent'),
           \A f \in ToSet(s) : FrameOK(t, f)',
           \A u \in Threads : u # t => \A f \in Calls(u) : FrameOK(u, f)'
    PROVE  FramesSound'
<1>1. FramesTyped /\ Calls(t)' = ToSet(s) /\ \A u \in Threads : u # t => Calls(u)' = Calls(u)
  BY MovedCalls DEF CallsSound, FramesSound
<1>2. frames' \in [Threads -> Seq(Frame)]
  <2>1. \A u \in Threads : frames'[u] \in Seq(Frame)
    BY <1>1 DEF Moved, Stacked, FramesTyped
  <2> QED BY <2>1 DEF Moved
<1>3. \A u \in Threads : Stacked(frames'[u], parent')
  BY DEF Moved
<1>4. ASSUME NEW u \in Threads, NEW f \in Calls(u)' PROVE FrameOK(u, f)'
  BY <1>1, <1>4
<1> QED BY <1>2, <1>3, <1>4 DEF FramesSound, FramesTyped

LEMMA UsersMoved ==
    ASSUME CallsSound, NEW t \in Threads, NEW s, Moved(t, s), frames[t] # <<>> \/ t \in users,
           UNCHANGED <<users, deleted>>, \A q \in Pools : Exists(q)' <=> Exists(q)
    PROVE  UsersSound'
<1>1. ~deleted /\ Exists(Global) /\ Global \in Pools
  BY Alive, PoolAssumption
<1>2. UsersSound
  BY DEF CallsSound
<1>3. \A u \in Threads : u # t => frames'[u] = frames[u]
  BY DEF Moved
<1>4. users = {} => \A u, v \in Threads : frames'[u] # <<>> /\ frames'[v] # <<>> => u = v
  BY <1>2, <1>3 DEF UsersSound
<1>5. users # {} => \A u \in Threads : u \notin users => frames'[u] = <<>>
  BY <1>2, <1>3 DEF UsersSound
<1> QED BY <1>1, <1>2, <1>4, <1>5 DEF UsersSound

LEMMA MakingMoved ==
    ASSUME CallsSound, NEW t \in Threads, NEW s, Moved(t, s), making[t] = <<>>, making' = making,
           \A u \in Threads : making[u] # <<>> =>
                /\ Exists(making[u][1])' /\ owner'[making[u][1]] = owner[making[u][1]]
                /\ u \in users => u \in users'
                /\ \A f \in ToSet(s) : f.pool = making[u][1] => f.at \in {"pre", "children"}
    PROVE  MakingSound'
<1>1. FramesTyped /\ Calls(t)' = ToSet(s) /\ \A u \in Threads : u # t => Calls(u)' = Calls(u)
  BY MovedCalls DEF CallsSound, FramesSound
<1> SUFFICES ASSUME NEW u \in Threads, making[u] # <<>> PROVE Maker(u, making[u][1])'
  BY DEF MakingSound
<1> DEFINE p == making[u][1]
<1>2. Maker(u, p)
  BY DEF CallsSound, MakingSound
<1>3. Exists(p)' /\ owner'[p] = owner[p] /\ \A f \in ToSet(s) : f.pool = p => f.at \in {"pre", "children"}
  OBVIOUS
<1>4. InCall(u)'
  <2>1. u # t
    OBVIOUS
  <2>2. frames'[u] = frames[u]
    BY <2>1 DEF Moved
  <2> QED BY <1>2, <2>2 DEF Maker, InCall
<1>5. p' = p
  OBVIOUS
<1> HIDE DEF p
<1>6. \A v \in Threads : \A f \in Calls(v)' : f.pool = p => f.at \in {"pre", "children"}
  BY <1>1, <1>2, <1>3 DEF Maker
<1>7. Maker(u, p)'
  BY <1>2, <1>3, <1>4, <1>5, <1>6 DEF Maker
<1> QED BY <1>7 DEF p

\* Only whether the pool of t's innermost call has unlinked itself may change.
LEMMA UnlinkedMoved ==
    ASSUME CallsSound, NEW t \in Threads, NEW s, Moved(t, s)
    PROVE  /\ \A r : Unlinked(r)' <=> \/ \E u \in Threads : u # t /\ \E f \in Calls(u) : f.pool = r /\ f.at = "unlinked"
                                      \/ \E f \in ToSet(s) : f.pool = r /\ f.at = "unlinked"
           /\ \A r : Unlinked(r) <=> \/ \E u \in Threads : u # t /\ \E f \in Calls(u) : f.pool = r /\ f.at = "unlinked"
                                     \/ \E f \in Calls(t) : f.pool = r /\ f.at = "unlinked"
<1>1. Calls(t)' = ToSet(s) /\ \A u \in Threads : u # t => Calls(u)' = Calls(u)
  BY MovedCalls DEF CallsSound, FramesSound
<1> QED BY <1>1 DEF Unlinked

\* The innermost call h of t gets further: it becomes g.
LEMMA HeadMoved ==
    ASSUME CallsSound, NEW t \in Threads, frames[t] # <<>>, NEW h, h = Head(frames[t]),
           NEW g \in Frame, g.pool = h.pool, NEW s, s = <<g>> \o Tail(frames[t])
    PROVE  /\ Stacked(s, parent) /\ ToSet(s) = Plus(ToSet(Tail(frames[t])), g)
           /\ \A f \in ToSet(Tail(frames[t])) : f \in Calls(t) /\ f.pool # h.pool /\ f.at # "unlinked"
           /\ \A f \in Calls(t) : f = h \/ f \in ToSet(Tail(frames[t]))
           /\ h \in Calls(t)
<1> DEFINE r == Tail(frames[t])
<1>1. Stacked(frames[t], parent)
  BY CallsIs DEF CallsSound
<1>2. /\ Stacked(r, parent) /\ h \in Calls(t)
      /\ \A f \in ToSet(r) : f \in Calls(t) /\ f.pool # h.pool /\ f.at # "unlinked"
                             /\ h.pool \notin AboveIn(parent, f.pool)
      /\ \A f \in Calls(t) : f = h \/ f \in ToSet(r)
  BY <1>1, StackTail DEF Calls
<1> HIDE DEF r
<1>3. Stacked(s, parent) /\ ToSet(s) = Plus(ToSet(r), g)
  BY <1>2, StackCons DEF r
<1> QED BY <1>2, <1>3 DEF r

\* clear, or the destructor, is called.
LEMMA CallsBegin ==
    ASSUME CallsSound, TreeSoundly, NEW t \in Threads, NEW p \in Pools, NEW clear \in BOOLEAN,
           ClearOrDestroy(t, p, clear), \A q \in Pools : Exists(q)' <=> Exists(q)
    PROVE  CallsSound' /\ TreeSoundly' /\ ~deleted
<1> DEFINE g == Begun(p, clear)
           s == <<g>> \o frames[t]
<1>1. /\ Calling(t) /\ Exists(p) /\ owner[p] = t /\ p # Global
      /\ \A q \in Busy(t) : p # q /\ p \notin Above(q)
      /\ frames' = [frames EXCEPT ![t] = s]
      /\ UNCHANGED <<owner, parent, child, preCleanups, cleanups, spare, making, users, deleted>>
  BY DEF ClearOrDestroy, Uses, Begin, treeVars, listVars
<1>2. InCall(t) /\ making[t] = <<>>
  BY <1>1, CallingIs
<1>3. frames[t] # <<>> \/ t \in users
  BY <1>2 DEF InCall
<1>4. ~deleted
  BY <1>3, Alive
<1>5. g \in Frame /\ g.pool = p /\ g.at = "pre" /\ g.calling = FALSE
  BY DEF Begun, Frame
<1>6. FramesTyped /\ Stacked(frames[t], parent)
  BY CallsIs DEF CallsSound, FramesSound
<1> HIDE DEF g
<1>7. Stacked(s, parent) /\ ToSet(s) = Plus(Calls(t), g)
  <2>1. ASSUME NEW f \in ToSet(frames[t])
        PROVE  g.pool # f.pool /\ g.pool \notin AboveIn(parent, f.pool) /\ f.at # "unlinked"
    <3>1. f \in Calls(t)
      BY DEF Calls
    <3>2. f.pool \in Busy(t)
      BY <3>1, AtIs DEF CallsSound
    <3> QED BY <1>1, <1>2, <1>5, <3>1, <3>2, AboveIs, NotUnlinked
  <2> QED BY <1>5, <1>6, <2>1, StackCons DEF Calls
<1>8. Moved(t, s)
  BY <1>1, <1>6, MovedIs
<1> HIDE DEF s
<1>9. ASSUME NEW u \in Threads, NEW f \in Calls(u) PROVE FrameOK(u, f)'
  <2>1. FrameOK(u, f) /\ f.pool \in Pools /\ Exists(f.pool)'
    BY CallsIs DEF CallsSound, FrameOK
  <2> QED BY <1>1, <2>1, FrameKept
<1>10. FrameOK(t, g)'
  BY <1>1, <1>5 DEF FrameOK
<1>11. FramesSound'
  <2>1. \A u \in Threads : Stacked(frames[u], parent')
    BY <1>1, CallsIs DEF CallsSound
  <2>2. Stacked(s, parent')
    BY <1>1, <1>7
  <2>3. \A f \in ToSet(s) : FrameOK(t, f)'
    BY <1>7, <1>9, <1>10 DEF Plus
  <2> QED BY <1>8, <1>9, <2>1, <2>2, <2>3, FramesMoved
<1>12. UsersSound'
  BY <1>1, <1>3, <1>8, UsersMoved
<1>13. MakingSound'
  <2> SUFFICES ASSUME NEW u \in Threads, making[u] # <<>>
               PROVE  /\ Exists(making[u][1])' /\ owner'[making[u][1]] = owner[making[u][1]]
                      /\ u \in users => u \in users'
                      /\ \A f \in ToSet(s) : f.pool = making[u][1] => f.at \in {"pre", "children"}
    BY <1>1, <1>2, <1>8, MakingMoved
  <2>1. Maker(u, making[u][1])
    BY DEF CallsSound, MakingSound
  <2> QED BY <1>1, <1>5, <1>7, <2>1 DEF Maker, Plus
<1>14. TreeSoundly'
  <2>1. \A r : Unlinked(r)' <=> Unlinked(r)
    BY <1>5, <1>7, <1>8, UnlinkedMoved DEF Plus
  <2> QED BY <1>1, <2>1, TreeFrame
<1> QED BY <1>4, <1>11, <1>12, <1>13, <1>14 DEF CallsSound

\* What a pool has done is not undone.
StaysEmpty(q) ==
    /\ preCleanups[q] = <<>> => preCleanups'[q] = <<>>
    /\ child[q] = <<>> => child'[q] = <<>>
    /\ cleanups[q] = <<>> => cleanups'[q] = <<>>
    /\ spare[q] = <<>> => spare'[q] = <<>>

\* The innermost call goes on: what happens to the tree is another matter.
LEMMA HeadFrames ==
    ASSUME CallsSound, NEW t \in Threads, frames[t] # <<>>, NEW h, h = Head(frames[t]),
           NEW g \in Frame, g.pool = h.pool, Moved(t, <<g>> \o Tail(frames[t])), FrameOK(t, g)',
           UNCHANGED <<owner, parent, making, users, deleted>>, making[t] = <<>>,
           \A q \in Pools : Exists(q)' <=> Exists(q),
           \A q \in Pools : q # h.pool => StaysEmpty(q),
           \A u \in Threads : making[u] # <<>> /\ making[u][1] = h.pool => g.at \in {"pre", "children"}
    PROVE  /\ CallsSound' /\ ~deleted
           /\ g.at # "unlinked" /\ h.at # "unlinked" => \A r : Unlinked(r)' <=> Unlinked(r)
           /\ g.at = "unlinked" => \A r : Unlinked(r)' <=> Unlinked(r) \/ r = h.pool
<1>1. PICK s : s = <<g>> \o Tail(frames[t])
  OBVIOUS
<1>2. Moved(t, s)
  BY <1>1
<1> DEFINE r == Tail(frames[t])
<1>3. /\ Stacked(s, parent) /\ ToSet(s) = Plus(ToSet(r), g)
      /\ \A f \in ToSet(r) : f \in Calls(t) /\ f.pool # h.pool /\ f.at # "unlinked"
      /\ \A f \in Calls(t) : f = h \/ f \in ToSet(r)
      /\ h \in Calls(t)
  BY <1>1, HeadMoved
<1>4. \A u \in Threads : \A f \in Calls(u) : f.pool = h.pool => u = t /\ f = h
  BY OnlyHead
<1> HIDE DEF r
<1>5. ASSUME NEW u \in Threads, NEW f \in Calls(u), f.pool # h.pool PROVE FrameOK(u, f)'
  <2>1. FrameOK(u, f) /\ f.pool \in Pools /\ Exists(f.pool)'
    BY CallsIs DEF CallsSound, FrameOK
  <2>2. owner'[f.pool] = owner[f.pool] /\ (users = {} <=> users' = {})
    OBVIOUS
  <2>3. StaysEmpty(f.pool)
    BY <1>5, <2>1
  <2> QED BY <2>1, <2>2, <2>3, FrameKept DEF StaysEmpty
<1>6. FramesSound'
  <2>1. \A u \in Threads : Stacked(frames[u], parent')
    BY CallsIs DEF CallsSound
  <2>2. Stacked(s, parent')
    BY <1>3
  <2>3. \A f \in ToSet(s) : FrameOK(t, f)'
    BY <1>3, <1>5 DEF Plus
  <2>4. \A u \in Threads : u # t => \A f \in Calls(u) : FrameOK(u, f)'
    BY <1>4, <1>5
  <2> QED BY <1>2, <2>1, <2>2, <2>3, <2>4, FramesMoved
<1>7. UsersSound'
  BY <1>2, UsersMoved
<1>8. MakingSound'
  <2> SUFFICES ASSUME NEW u \in Threads, making[u] # <<>>
               PROVE  /\ Exists(making[u][1])' /\ owner'[making[u][1]] = owner[making[u][1]]
                      /\ u \in users => u \in users'
                      /\ \A f \in ToSet(s) : f.pool = making[u][1] => f.at \in {"pre", "children"}
    BY <1>2, MakingMoved
  <2>1. Maker(u, making[u][1])
    BY DEF CallsSound, MakingSound
  <2> QED BY <1>3, <2>1 DEF Maker, Plus
<1>9. g.at # "unlinked" /\ h.at # "unlinked" => \A x : Unlinked(x)' <=> Unlinked(x)
  BY <1>2, <1>3, UnlinkedMoved DEF Plus
<1>10. g.at = "unlinked" => \A x : Unlinked(x)' <=> Unlinked(x) \/ x = h.pool
  BY <1>2, <1>3, UnlinkedMoved DEF Plus
<1>11. ~deleted
  BY Alive
<1> QED BY <1>6, <1>7, <1>8, <1>9, <1>10, <1>11 DEF CallsSound

\* A cleanup function is called.
LEMMA CallsRun ==
    ASSUME CallsSound, TreeSoundly, NEW t \in Threads, NEW at \in {"pre", "cleanups"}, Reached(t, at),
           frames' = [frames EXCEPT ![t][1].calling = TRUE, ![t][1].at = at],
           UNCHANGED <<owner, parent, child, spare, making, users, deleted>>,
           \A q \in Pools : Exists(q)' <=> Exists(q),
           NEW h, h = Head(frames[t]),
           \A q \in Pools : q # h.pool => preCleanups'[q] = preCleanups[q] /\ cleanups'[q] = cleanups[q],
           at = "cleanups" => preCleanups' = preCleanups
    PROVE  CallsSound' /\ TreeSoundly' /\ ~deleted
<1>1. /\ frames[t] # <<>> /\ h \in Calls(t) /\ h \in Frame /\ ~h.calling /\ h.pool \in Pools
      /\ Exists(h.pool) /\ FrameOK(t, h) /\ h.at # "unlinked"
      /\ at = "cleanups" => child[h.pool] = <<>> /\ preCleanups[h.pool] = <<>>
  BY ReachedIs
<1>2. PICK g : g = Now(h, at, TRUE)
  OBVIOUS
<1>3. Moved(t, <<g>> \o Tail(frames[t]))
  BY <1>1, <1>2, MovedRun DEF CallsSound, FramesSound
<1>4. making[t] = <<>> /\ \A u \in Threads : making[u] # <<>> => making[u][1] # h.pool
  BY <1>1, NoMaking
<1>5. at \in {"pre", "children", "cleanups", "unlinked"} /\ at # "unlinked"
  OBVIOUS
<1>6. g \in Frame /\ g.pool = h.pool /\ g.clear = h.clear /\ g.at = at
  BY <1>1, <1>2, <1>5 DEF Now, Frame
<1>7. FrameOK(t, g)'
  <2>1. g.at # "pre" => g.at = "cleanups"
    BY <1>6
  <2>2. g.at # "unlinked"
    BY <1>5, <1>6
  <2> QED BY <1>1, <1>6, <2>1, <2>2 DEF FrameOK
<1>8. CallsSound' /\ ~deleted /\ \A r : Unlinked(r)' <=> Unlinked(r)
  BY <1>1, <1>3, <1>4, <1>5, <1>6, <1>7, HeadFrames DEF StaysEmpty
<1>9. TreeSoundly'
  BY <1>8, TreeFrame
<1> QED BY <1>8, <1>9

LEMMA CallsReturn ==
    ASSUME CallsSound, TreeSoundly, NEW t \in Threads, Return(t), \A q \in Pools : Exists(q)' <=> Exists(q)
    PROVE  CallsSound' /\ TreeSoundly' /\ ~deleted
<1>1. /\ frames[t] # <<>> /\ Calling(t) /\ frames' = [frames EXCEPT ![t][1].calling = FALSE]
      /\ UNCHANGED <<owner, parent, child, preCleanups, cleanups, spare, making, users, deleted>>
  BY DEF Return, treeVars, listVars
<1>2. InCall(t) /\ making[t] = <<>>
  BY <1>1, CallingIs
<1>3. PICK h : h = Head(frames[t])
  OBVIOUS
<1>4. h \in Calls(t) /\ h \in Frame /\ h.pool \in Pools /\ FrameOK(t, h)
  BY <1>1, <1>3, CallsIs DEF CallsSound
<1>5. h.at \in {"pre", "children", "cleanups", "unlinked"} /\ h.at # "unlinked"
  <2>1. h.at # "unlinked"
    BY <1>2, <1>4, NotUnlinked
  <2> QED BY <1>4, <2>1 DEF Frame
<1>6. PICK g : g = Now(h, h.at, FALSE)
  OBVIOUS
<1>7. Moved(t, <<g>> \o Tail(frames[t]))
  BY <1>1, <1>3, <1>6, MovedReturn DEF CallsSound, FramesSound
<1>8. g \in Frame /\ g.pool = h.pool /\ g.clear = h.clear /\ g.at = h.at
  BY <1>4, <1>5, <1>6 DEF Now, Frame
<1>9. FrameOK(t, g)'
  <2>1. g.at # "unlinked" /\ Exists(g.pool)'
    BY <1>4, <1>5, <1>8 DEF FrameOK
  <2> QED BY <1>1, <1>4, <1>8, <2>1 DEF FrameOK
<1>10. \A u \in Threads : making[u] # <<>> /\ making[u][1] = h.pool => g.at \in {"pre", "children"}
  BY <1>4, <1>8 DEF CallsSound, MakingSound, Maker
<1>11. CallsSound' /\ ~deleted /\ \A r : Unlinked(r)' <=> Unlinked(r)
  BY <1>1, <1>2, <1>3, <1>5, <1>7, <1>8, <1>9, <1>10, HeadFrames DEF StaysEmpty
<1>12. TreeSoundly'
  BY <1>1, <1>11, TreeFrame
<1> QED BY <1>11, <1>12

\* What is directly below a pool.
LEMMA KidIs ==
    ASSUME TreeSoundly, NEW p \in Pools, NEW c \in Kids(p)
    PROVE  /\ c \in Pools /\ c # p /\ c # Global /\ parent[c] = p /\ Exists(c) /\ ~Unlinked(c)
           /\ ChildOf(c, p)
           /\ \A r \in Pools : c = r \/ c \in AboveIn(parent, r) => p \in AboveIn(parent, r)
<1>1. /\ TreeTyped /\ ChildrenSound /\ ParentsSound /\ Parents(parent) /\ NULL \notin Pools
  BY PoolAssumption DEF TreeSoundly, TreeTyped
<1>2. c \in Pools /\ parent[c] = p /\ Exists(c) /\ ~Unlinked(c)
  BY <1>1, ListsIs DEF TreeTyped, ChildrenSound
<1>3. c # Global
  BY <1>1, <1>2 DEF TreeTyped
<1>4. p \in AboveIn(parent, c)
  BY <1>1, <1>2, AboveUpward
<1>5. c # p
  BY <1>1, <1>2, <1>4 DEF ParentsSound
<1>6. ASSUME NEW r \in Pools, c = r \/ c \in AboveIn(parent, r) PROVE p \in AboveIn(parent, r)
  <2>1. c \in AboveIn(parent, r) => AboveIn(parent, c) \subseteq AboveIn(parent, r)
    BY <1>1, AboveOf
  <2> QED BY <1>4, <1>6, <2>1
<1>7. ChildOf(c, p)
  BY <1>1, <1>2, <1>3 DEF ParentsSound
<1> QED BY <1>2, <1>3, <1>5, <1>6, <1>7

\* ~Pool of the first child is called.
LEMMA CallsDestroyChild ==
    ASSUME CallsSound, TreeSoundly, NEW t \in Threads, DestroyChild(t), \A q \in Pools : Exists(q)' <=> Exists(q)
    PROVE  CallsSound' /\ TreeSoundly' /\ ~deleted
<1>1. PICK h : h = Head(frames[t])
  OBVIOUS
<1>2. PICK c : c = Head(child[h.pool])
  OBVIOUS
<1>3. /\ Reached(t, "children")
      /\ frames' = [frames EXCEPT ![t] = <<Begun(c, FALSE), [Head(frames[t]) EXCEPT !.at = "children"]>> \o Tail(@)]
      /\ UNCHANGED <<owner, parent, child, preCleanups, cleanups, spare, making, users, deleted>>
  BY <1>1, <1>2 DEF DestroyChild, treeVars, listVars
<1>4. /\ frames[t] # <<>> /\ h \in Calls(t) /\ h \in Frame /\ ~h.calling /\ h.pool \in Pools
      /\ Exists(h.pool) /\ FrameOK(t, h) /\ h.at # "unlinked"
      /\ child[h.pool] # <<>> /\ preCleanups[h.pool] = <<>>
  BY <1>1, <1>3, ReachedIs
<1>5. c \in Kids(h.pool)
  <2>1. Lists(child[h.pool], Pools, Kids(h.pool))
    BY <1>4 DEF TreeSoundly, TreeTyped
  <2> QED BY <1>2, <1>4, <2>1, ListsTail
<1>6. /\ c \in Pools /\ c # h.pool /\ c # Global /\ Exists(c) /\ ChildOf(c, h.pool)
      /\ \A r \in Pools : c = r \/ c \in AboveIn(parent, r) => h.pool \in AboveIn(parent, r)
  BY <1>4, <1>5, KidIs
<1>7. PICK g : g = Now(h, "children", h.calling)
  OBVIOUS
<1>8. g \in Frame /\ g.pool = h.pool /\ g.at = "children" /\ g.clear = h.clear
  BY <1>4, <1>7 DEF Now, Frame
<1>9. PICK b : b = Begun(c, FALSE)
  OBVIOUS
<1>10. b \in Frame /\ b.pool = c /\ b.at = "pre"
  BY <1>6, <1>9 DEF Begun, Frame
<1>11. FramesTyped
  BY DEF CallsSound, FramesSound
<1>12. PICK y : y = <<g>> \o Tail(frames[t])
  OBVIOUS
<1>13. PICK s : s = <<b>> \o y
  OBVIOUS
<1>14. Moved(t, s)
  BY <1>1, <1>3, <1>4, <1>6, <1>7, <1>9, <1>11, <1>12, <1>13, MovedDown
<1> DEFINE r == Tail(frames[t])
<1>15. /\ Stacked(y, parent) /\ ToSet(y) = Plus(ToSet(r), g)
       /\ \A f \in ToSet(r) : f \in Calls(t) /\ f.pool # h.pool /\ f.at # "unlinked"
       /\ \A f \in Calls(t) : f = h \/ f \in ToSet(r)
  BY <1>1, <1>4, <1>8, <1>12, HeadMoved
<1>16. \A f \in ToSet(r) : h.pool \notin AboveIn(parent, f.pool)
  <2>1. Stacked(frames[t], parent)
    BY CallsIs DEF CallsSound
  <2> QED BY <1>1, <1>4, <2>1, StackTail
<1> HIDE DEF r
<1>17. ASSUME NEW f \in ToSet(y)
       PROVE  b.pool # f.pool /\ b.pool \notin AboveIn(parent, f.pool) /\ f.at # "unlinked"
  <2>1. f.at # "unlinked"
    BY <1>8, <1>15 DEF Plus
  <2>2. f.pool \in Pools /\ h.pool \notin AboveIn(parent, f.pool)
    <3>1. CASE f = g
      BY <1>4, <1>8, <3>1 DEF TreeSoundly, ParentsSound
    <3>2. CASE f \in ToSet(r)
      BY <1>15, <1>16, <3>2, CallsIs DEF CallsSound
    <3> QED BY <1>15, <3>1, <3>2 DEF Plus
  <2> QED BY <1>6, <1>10, <2>1, <2>2
<1>18. Stacked(s, parent) /\ ToSet(s) = Plus(ToSet(y), b)
  BY <1>10, <1>13, <1>15, <1>17, StackCons
<1>19. ASSUME NEW u \in Threads, NEW f \in Calls(u) PROVE FrameOK(u, f)'
  <2>1. FrameOK(u, f) /\ f.pool \in Pools /\ Exists(f.pool)'
    BY CallsIs DEF CallsSound, FrameOK
  <2> QED BY <1>3, <2>1, FrameKept
<1>20. FrameOK(t, g)'
  <2>1. Exists(g.pool)' /\ g.at # "unlinked"
    BY <1>4, <1>8
  <2> QED BY <1>3, <1>4, <1>8, <2>1 DEF FrameOK
<1>21. FrameOK(t, b)'
  <2>1. users # {} => owner[c] = t
    BY <1>4, <1>6 DEF ChildOf, FrameOK
  <2>2. Exists(b.pool)' /\ b.pool # Global /\ b.at = "pre"
    BY <1>6, <1>10
  <2> QED BY <1>3, <1>10, <2>1, <2>2 DEF FrameOK
<1>22. FramesSound'
  <2>1. \A u \in Threads : Stacked(frames[u], parent')
    BY <1>3, CallsIs DEF CallsSound
  <2>2. Stacked(s, parent')
    BY <1>3, <1>18
  <2>3. \A f \in ToSet(s) : FrameOK(t, f)'
    BY <1>15, <1>18, <1>19, <1>20, <1>21 DEF Plus
  <2> QED BY <1>14, <1>19, <2>1, <2>2, <2>3, FramesMoved
<1>23. UsersSound' /\ ~deleted
  BY <1>3, <1>4, <1>14, UsersMoved, Alive
<1>24. making[t] = <<>>
  BY <1>1, <1>4, NoMaking
<1>25. MakingSound'
  <2> SUFFICES ASSUME NEW u \in Threads, making[u] # <<>>
               PROVE  /\ Exists(making[u][1])' /\ owner'[making[u][1]] = owner[making[u][1]]
                      /\ u \in users => u \in users'
                      /\ \A f \in ToSet(s) : f.pool = making[u][1] => f.at \in {"pre", "children"}
    BY <1>3, <1>14, <1>24, MakingMoved
  <2>1. Maker(u, making[u][1])
    BY DEF CallsSound, MakingSound
  <2>2. Exists(making[u][1])' /\ owner'[making[u][1]] = owner[making[u][1]] /\ users' = users
    BY <1>3, <2>1 DEF Maker
  <2>3. \A f \in ToSet(r) : f.pool = making[u][1] => f.at \in {"pre", "children"}
    BY <1>15, <2>1 DEF Maker
  <2>4. \A f \in ToSet(s) : f \in ToSet(r) \/ f = g \/ f = b
    BY <1>15, <1>18 DEF Plus
  <2> QED BY <1>8, <1>10, <2>2, <2>3, <2>4
<1>26. TreeSoundly'
  <2>1. \A f \in ToSet(s) : f.at = "unlinked" => FALSE
    BY <1>8, <1>10, <1>15, <1>18 DEF Plus
  <2>2. \A f \in Calls(t) : f.at = "unlinked" => FALSE
    BY <1>4, <1>15
  <2>3. \A x : Unlinked(x)' <=> Unlinked(x)
    BY <1>14, <2>1, <2>2, UnlinkedMoved
  <2> QED BY <1>3, <2>3, TreeFrame
<1> QED BY <1>22, <1>23, <1>25, <1>26 DEF CallsSound

\* A pool leaves its parent's list.
LEMMA TreeUnlinked ==
    ASSUME TreeSoundly, NEW p \in Pools, Kids(p) = {},
           child' = [q \in Pools |-> IF q = parent[p] THEN RemoveFirst(child[q], p) ELSE child[q]],
           UNCHANGED <<owner, parent>>, \A q \in Pools : Exists(q)' <=> Exists(q),
           \A r : Unlinked(r)' <=> Unlinked(r) \/ r = p
    PROVE  TreeSoundly' /\ \A q \in Pools : child[q] = <<>> => child'[q] = <<>>
<1>1. TreeTyped /\ ChildrenSound /\ ParentsSound
  BY DEF TreeSoundly
<1>2. \A q \in Pools : child'[q] = IF q = parent[p] THEN RemoveFirst(child[q], p) ELSE child[q]
  OBVIOUS
<1>3. DOMAIN child' = Pools /\ child' = [q \in Pools |-> child'[q]]
  OBVIOUS
<1>4. \A q \in Pools : \A r \in Kids(q) : r = p => q = parent[p]
  BY <1>1 DEF ChildrenSound
<1>5. ASSUME NEW q \in Pools PROVE Lists(child'[q], Pools, Minus(Kids(q), p))
  <2>1. Lists(child[q], Pools, Kids(q))
    BY <1>1 DEF TreeTyped
  <2>2. CASE q = parent[p]
    BY <1>2, <2>1, <2>2, ListsRemoveFirst
  <2>3. CASE q # parent[p]
    <3>1. Minus(Kids(q), p) = Kids(q)
      BY <1>4, <2>3 DEF Minus
    <3> QED BY <1>2, <2>1, <2>3, <3>1
  <2> QED BY <2>2, <2>3
<1>6. \A q \in Pools : Kids(q)' = Minus(Kids(q), p)
  BY <1>5 DEF Lists, Kids
<1>7. TreeTyped'
  <2>1. \A q \in Pools : Lists(child'[q], Pools, Kids(q)')
    BY <1>5, <1>6
  <2> QED BY <1>1, <1>3, <2>1 DEF TreeTyped
<1>8. ChildrenSound'
  <2> SUFFICES ASSUME NEW q \in Pools, NEW r \in Kids(q)' PROVE parent[r] = q /\ Exists(r)' /\ ~Unlinked(r)'
    BY DEF ChildrenSound
  <2>1. r \in Kids(q) /\ r # p
    BY <1>6 DEF Minus
  <2> QED BY <2>1, KidIs
<1>9. ParentsSound'
  <2>1. ASSUME NEW r \in Pools, Exists(r)', r # Global PROVE ChildOf(r, parent[r])'
    <3>1. ChildOf(r, parent[r])
      BY <1>1, <2>1 DEF ParentsSound
    <3>2. parent[r] \in Pools /\ Exists(parent[r])'
      BY <3>1 DEF ChildOf
    <3>3. r \in Kids(parent[r]) => r \in Kids(parent[r])' \/ r = p
      BY <1>6, <3>2 DEF Minus
    <3> QED BY <3>1, <3>2, <3>3 DEF ChildOf
  <2> QED BY <1>1, <2>1 DEF ParentsSound
<1>10. ASSUME NEW q \in Pools, child[q] = <<>> PROVE child'[q] = <<>>
  <2>1. Lists(child[q], Pools, Kids(q)) /\ Lists(child'[q], Pools, Minus(Kids(q), p))
    BY <1>1, <1>5 DEF TreeTyped
  <2>2. Kids(q) = {}
    BY <1>10, <2>1, ListsIs
  <2>3. Minus(Kids(q), p) = {}
    BY <2>2 DEF Minus
  <2> QED BY <2>1, <2>3, ListsIs
<1> QED BY <1>7, <1>8, <1>9, <1>10 DEF TreeSoundly

LEMMA CallsUnlink ==
    ASSUME CallsSound, TreeSoundly, NEW t \in Threads, Unlink(t), \A q \in Pools : Exists(q)' <=> Exists(q),
           \A q \in Pools : spare[q] = <<>> => spare'[q] = <<>>,
           NEW h, h = Head(frames[t]), spare'[h.pool] = <<>>
    PROVE  CallsSound' /\ TreeSoundly' /\ ~deleted
<1>1. /\ Reached(t, "end") /\ ~h.clear
      /\ child' = [q \in Pools |-> IF q = parent[h.pool] THEN RemoveFirst(child[q], h.pool) ELSE child[q]]
      /\ frames' = [frames EXCEPT ![t][1].at = "unlinked"]
      /\ UNCHANGED <<owner, parent, preCleanups, cleanups, making, users, deleted>>
  BY DEF Unlink
<1>2. /\ frames[t] # <<>> /\ h \in Calls(t) /\ h \in Frame /\ ~h.calling /\ h.pool \in Pools
      /\ Exists(h.pool) /\ FrameOK(t, h) /\ h.at # "unlinked"
      /\ child[h.pool] = <<>> /\ preCleanups[h.pool] = <<>> /\ cleanups[h.pool] = <<>>
  BY <1>1, ReachedIs
<1>3. PICK g : g = Now(h, "unlinked", h.calling)
  OBVIOUS
<1>4. g \in Frame /\ g.pool = h.pool /\ g.at = "unlinked" /\ ~g.clear /\ ~g.calling
  <2>1. g \in Frame
    BY <1>2, <1>3 DEF Now, Frame
  <2>2. g.pool = h.pool /\ g.at = "unlinked"
    BY <1>3 DEF Now
  <2>3. g.clear = h.clear /\ g.calling = h.calling
    BY <1>3 DEF Now
  <2> QED BY <1>1, <1>2, <2>1, <2>2, <2>3
<1>5. Moved(t, <<g>> \o Tail(frames[t]))
  BY <1>1, <1>2, <1>3, MovedUnlink DEF CallsSound, FramesSound
<1>6. Kids(h.pool) = {}
  BY <1>2, ListsIs DEF TreeSoundly, TreeTyped
<1>7. making[t] = <<>> /\ \A u \in Threads : making[u] # <<>> => making[u][1] # h.pool
  BY <1>2, NoMaking
<1>8. ASSUME NEW q \in Pools, child[q] = <<>> PROVE child'[q] = <<>>
  <2>1. CASE q = parent[h.pool]
    <3>1. Lists(child[q], Pools, Kids(q)) /\ child'[q] = RemoveFirst(child[q], h.pool)
      BY <1>1, <2>1 DEF TreeSoundly, TreeTyped
    <3>2. Kids(q) = {} /\ Lists(child'[q], Pools, Minus(Kids(q), h.pool))
      BY <1>8, <3>1, ListsIs, ListsRemoveFirst
    <3>3. Minus(Kids(q), h.pool) = {}
      BY <3>2 DEF Minus
    <3> QED BY <3>2, <3>3, ListsIs
  <2>2. CASE q # parent[h.pool]
    BY <1>1, <1>8, <2>2
  <2> QED BY <2>1, <2>2
<1>9. FrameOK(t, g)'
  <2>1. Exists(g.pool)' /\ child'[g.pool] = <<>> /\ spare'[g.pool] = <<>>
    BY <1>2, <1>4, <1>8
  <2> QED BY <1>1, <1>2, <1>4, <2>1 DEF FrameOK
<1>10. CallsSound' /\ ~deleted /\ \A r : Unlinked(r)' <=> Unlinked(r) \/ r = h.pool
  <2>1. \A q \in Pools : q # h.pool => StaysEmpty(q)
    BY <1>1, <1>8 DEF StaysEmpty
  <2> QED BY <1>1, <1>2, <1>4, <1>5, <1>7, <1>9, <2>1, HeadFrames
<1>11. TreeSoundly'
  BY <1>1, <1>2, <1>6, <1>10, TreeUnlinked
<1> QED BY <1>10, <1>11

\* The innermost call returns, and its pool is still there.
LEMMA CallsPop ==
    ASSUME CallsSound, NEW t \in Threads, frames[t] # <<>>, NEW h, h = Head(frames[t]), ~h.calling,
           frames' = [frames EXCEPT ![t] = Tail(@)], making' = making, users' = users,
           \A q \in Pools : q # h.pool => (Exists(q)' <=> Exists(q)) /\ owner'[q] = owner[q] /\ StaysEmpty(q),
           \A q \in Pools : q # h.pool => AboveIn(parent', q) \subseteq AboveIn(parent, q)
    PROVE  /\ FramesSound' /\ MakingSound'
           /\ \A r : r # h.pool => (Unlinked(r)' <=> Unlinked(r))
           /\ ~Unlinked(h.pool)'
<1> DEFINE r == Tail(frames[t])
<1>1. FramesTyped /\ Stacked(frames[t], parent)
  BY CallsIs DEF CallsSound, FramesSound
<1>2. PICK s : s = Tail(frames[t])
  OBVIOUS
<1>3. Moved(t, s)
  BY <1>1, <1>2, MovedIs
<1>4. /\ Stacked(s, parent) /\ \A f \in ToSet(s) : f \in Calls(t) /\ f.pool # h.pool /\ f.at # "unlinked"
      /\ \A f \in Calls(t) : f = h \/ f \in ToSet(s)
  BY <1>1, <1>2, StackTail DEF Calls
<1>5. \A u \in Threads : \A f \in Calls(u) : f.pool = h.pool => u = t /\ f = h
  BY OnlyHead
<1>6. ASSUME NEW u \in Threads, NEW f \in Calls(u), f.pool # h.pool PROVE FrameOK(u, f)'
  <2>1. FrameOK(u, f) /\ f.pool \in Pools /\ Exists(f.pool)'
    BY <1>6, CallsIs DEF CallsSound, FrameOK
  <2>2. owner'[f.pool] = owner[f.pool] /\ (users = {} <=> users' = {}) /\ StaysEmpty(f.pool)
    BY <1>6, <2>1
  <2> QED BY <2>1, <2>2, FrameKept DEF StaysEmpty
<1>7. FramesSound'
  <2>1. ASSUME NEW u \in Threads, u # t PROVE Stacked(frames[u], parent')
    <3>1. Stacked(frames[u], parent)
      BY CallsIs DEF CallsSound
    <3>2. \A f \in ToSet(frames[u]) : f \in Calls(u) /\ f.pool \in Pools /\ f.pool # h.pool
      BY <1>5, <2>1, CallsIs DEF CallsSound, Calls
    <3> QED BY <3>1, <3>2, StackSame
  <2>2. Stacked(s, parent')
    <3>1. \A f \in ToSet(s) : f.pool \in Pools /\ f.pool # h.pool
      BY <1>4, CallsIs DEF CallsSound
    <3> QED BY <1>4, <3>1, StackSame
  <2>3. \A f \in ToSet(s) : FrameOK(t, f)'
    BY <1>4, <1>6
  <2>4. \A u \in Threads : u # t => \A f \in Calls(u) : FrameOK(u, f)'
    BY <1>5, <1>6
  <2> QED BY <1>3, <2>1, <2>2, <2>3, <2>4, FramesMoved
<1>8. making[t] = <<>> /\ \A u \in Threads : making[u] # <<>> => making[u][1] # h.pool
  BY NoMaking
<1>9. MakingSound'
  <2> SUFFICES ASSUME NEW u \in Threads, making[u] # <<>>
               PROVE  /\ Exists(making[u][1])' /\ owner'[making[u][1]] = owner[making[u][1]]
                      /\ u \in users => u \in users'
                      /\ \A f \in ToSet(s) : f.pool = making[u][1] => f.at \in {"pre", "children"}
    BY <1>3, <1>8, MakingMoved
  <2>1. Maker(u, making[u][1]) /\ making[u][1] # h.pool
    BY <1>8 DEF CallsSound, MakingSound
  <2> QED BY <1>4, <2>1 DEF Maker
<1>10. ASSUME NEW x, x # h.pool PROVE Unlinked(x)' <=> Unlinked(x)
  <2>1. (\E f \in Calls(t) : f.pool = x /\ f.at = "unlinked") <=> \E f \in ToSet(s) : f.pool = x /\ f.at = "unlinked"
    BY <1>4, <1>10
  <2> QED BY <1>3, <2>1, UnlinkedMoved
<1>11. ~Unlinked(h.pool)'
  <2>1. \A f \in ToSet(s) : f.pool # h.pool
    BY <1>4
  <2>2. \A u \in Threads : u # t => \A f \in Calls(u) : f.pool # h.pool
    BY <1>5
  <2> QED BY <1>3, <2>1, <2>2, UnlinkedMoved
<1> QED BY <1>7, <1>9, <1>10, <1>11

\* clear returns.
LEMMA CallsReset ==
    ASSUME CallsSound, TreeSoundly, NEW t \in Threads, Reset(t), \A q \in Pools : Exists(q)' <=> Exists(q),
           \A q \in Pools : spare[q] = <<>> => spare'[q] = <<>>
    PROVE  CallsSound' /\ TreeSoundly' /\ ~deleted
<1>1. PICK h : h = Head(frames[t])
  OBVIOUS
<1>2. /\ Reached(t, "end")
      /\ frames' = [frames EXCEPT ![t] = Tail(@)]
      /\ UNCHANGED <<owner, parent, child, preCleanups, cleanups, making, users, deleted>>
  BY DEF Reset
<1>3. /\ frames[t] # <<>> /\ h \in Calls(t) /\ ~h.calling /\ h.pool \in Pools /\ h.at # "unlinked"
  BY <1>1, <1>2, ReachedIs
<1>4. \A q \in Pools : (Exists(q)' <=> Exists(q)) /\ owner'[q] = owner[q] /\ StaysEmpty(q)
  BY <1>2 DEF StaysEmpty
<1>5. /\ FramesSound' /\ MakingSound'
      /\ \A r : r # h.pool => (Unlinked(r)' <=> Unlinked(r))
      /\ ~Unlinked(h.pool)'
  BY <1>1, <1>2, <1>3, <1>4, CallsPop
<1>6. ~Unlinked(h.pool)
  <2>1. \A u \in Threads : \A f \in Calls(u) : f.pool = h.pool => f = h
    BY <1>1, <1>3, OnlyHead
  <2> QED BY <1>3, <2>1 DEF Unlinked
<1>7. UsersSound' /\ ~deleted
  <2>1. Moved(t, Tail(frames[t]))
    BY <1>2, MovedIs DEF CallsSound, FramesSound
  <2> QED BY <1>2, <1>3, <2>1, UsersMoved, Alive
<1>8. TreeSoundly'
  <2>1. \A r : Unlinked(r)' <=> Unlinked(r)
    BY <1>5, <1>6
  <2> QED BY <1>2, <2>1, TreeFrame
<1> QED BY <1>5, <1>7, <1>8 DEF CallsSound

\* A pool that has unlinked itself has nothing below it.
LEMMA NothingBelow ==
    ASSUME CallsSound, TreeSoundly, NEW t \in Threads, NEW h \in Calls(t), h.at = "unlinked",
           frames[t] # <<>>, h = Head(frames[t])
    PROVE  /\ \A r \in Pools : Exists(r) /\ r # h.pool => parent[r] # h.pool
           /\ \A r \in Pools : r # h.pool => h.pool \notin AboveIn(parent, r)
           /\ h.pool = Global => \A r \in Pools : Exists(r) => r = h.pool
<1> DEFINE p == h.pool
           S == {q \in Pools : Exists(q) /\ q # p}
<1>1. p \in Pools /\ FrameOK(t, h) /\ Exists(p) /\ NULL \notin Pools
  BY CallsIs, PoolAssumption DEF CallsSound, FrameOK
<1>2. TreeTyped /\ ParentsSound
  BY DEF TreeSoundly
<1>3. ASSUME NEW r \in Pools, Exists(r), r # p, parent[r] = p PROVE FALSE
  <2>1. r # Global
    BY <1>1, <1>2, <1>3 DEF TreeTyped
  <2>2. ChildOf(r, p)
    BY <1>2, <1>3, <2>1 DEF ParentsSound
  <2>3. Kids(p) = {}
    <3>1. child[p] = <<>>
      BY <1>1 DEF FrameOK
    <3> QED BY <1>1, <1>2, <3>1, ListsIs DEF TreeTyped
  <2>4. Unlinked(r)
    BY <2>2, <2>3 DEF ChildOf
  <2>4a. PICK u \in Threads : \E f \in Calls(u) : f.pool = r /\ f.at = "unlinked"
    BY <2>4 DEF Unlinked
  <2>5. PICK f \in Calls(u) : f.pool = r /\ f.at = "unlinked"
    BY <2>4a
  <2>6. FrameOK(u, f) /\ frames[u] # <<>>
    BY CallsIs DEF CallsSound
  <2>7. u = t
    <3>1. CASE users = {}
      BY <2>6, <3>1 DEF CallsSound, UsersSound
    <3>2. CASE users # {}
      BY <1>1, <2>1, <2>2, <2>5, <2>6, <3>2 DEF FrameOK, ChildOf
    <3> QED BY <3>1, <3>2
  <2>8. f # h
    BY <1>3, <2>5
  <2>9. f \in ToSet(Tail(frames[t])) => f.at # "unlinked"
    BY CallsIs, StackTail DEF CallsSound
  <2>10. f = h \/ f \in ToSet(Tail(frames[t]))
    <3>1. Stacked(frames[t], parent) /\ f \in ToSet(frames[t])
      BY <2>7, CallsIs DEF CallsSound, Calls
    <3> QED BY <3>1, StackTail
  <2> QED BY <2>5, <2>8, <2>9, <2>10
<1>4. \A q \in Pools : q # p => parent[q] \in S \cup {NULL}
  <2> SUFFICES ASSUME NEW q \in Pools, q # p, parent[q] # NULL PROVE parent[q] \in S
    OBVIOUS
  <2>1. Exists(q) /\ parent[q] \in Existing
    BY <1>2, AboveExists DEF TreeTyped
  <2>2. parent[q] # p
    BY <1>3, <2>1
  <2> QED BY <2>1, <2>2 DEF Existing
<1>5. UpwardIn(parent, S) /\ S \in SUBSET Pools
  BY <1>4 DEF UpwardIn
<1>6. ASSUME NEW r \in Pools, r # p PROVE p \notin AboveIn(parent, r)
  <2>1. AboveIn(parent, r) \subseteq S
    <3>1. parent[r] \in S \cup {NULL}
      BY <1>4, <1>6
    <3> HIDE DEF S
    <3> QED BY <1>5, <3>1, AboveLeast
  <2> QED BY <2>1
<1>7. ASSUME p = Global, NEW r \in Pools, Exists(r), r # p PROVE FALSE
  BY <1>2, <1>6, <1>7 DEF ParentsSound
<1> QED BY <1>3, <1>6, <1>7

LEMMA TreeFreed ==
    ASSUME CallsSound, TreeSoundly, NEW t \in Threads, NEW h \in Calls(t), h.at = "unlinked",
           frames[t] # <<>>, h = Head(frames[t]), NEW p, p = h.pool,
           owner' = [owner EXCEPT ![p] = NULL], parent' = [parent EXCEPT ![p] = NULL], child' = child,
           ~Exists(p)', \A q \in Pools : q # p => (Exists(q)' <=> Exists(q)),
           \A q \in Pools : q # p => (Unlinked(q)' <=> Unlinked(q))
    PROVE  /\ TreeSoundly'
           /\ \A q \in Pools : q # p => AboveIn(parent', q) = AboveIn(parent, q)
<1>1. /\ p \in Pools /\ FrameOK(t, h) /\ Exists(p)
  BY CallsIs DEF CallsSound, FrameOK
<1>2. TreeTyped /\ ChildrenSound /\ ParentsSound /\ Parents(parent)
  BY DEF TreeSoundly, TreeTyped
<1>3. /\ \A r \in Pools : Exists(r) /\ r # p => parent[r] # p
      /\ \A r \in Pools : r # p => p \notin AboveIn(parent, r)
  BY NothingBelow
<1>4. \A q \in Pools : q # p => owner'[q] = owner[q] /\ parent'[q] = parent[q]
  BY <1>2 DEF TreeTyped, Parents
<1>5. parent'[p] = NULL /\ owner'[p] = NULL
  BY <1>1, <1>2 DEF TreeTyped, Parents
<1>6. \A q : Kids(q)' = Kids(q)
  BY DEF Kids
<1>7. ASSUME NEW q \in Pools, q # p PROVE AboveIn(parent', q) = AboveIn(parent, q)
  <2>1. \A x \in AboveIn(parent, q) : parent'[x] = parent[x]
    <3>1. AboveIn(parent, q) \subseteq Pools
      BY DEF AboveIn
    <3> QED BY <1>3, <1>4, <1>7, <3>1
  <2>2. parent'[q] = parent[q]
    BY <1>4, <1>7
  <2>3. \A pb : pb[q] = parent[q] /\ (\A x \in AboveIn(parent, q) : pb[x] = parent[x]) =>
            AboveIn(pb, q) = AboveIn(parent, q)
    BY <1>2, AboveSame
  <2> QED BY <2>1, <2>2, <2>3
<1>8. AboveIn(parent', p) = {}
  BY <1>5, AboveNothing
<1>9. TreeTyped'
  <2>1. Parents(parent') /\ owner' \in [Pools -> Threads \cup {NULL}]
    BY <1>2 DEF TreeTyped, Parents
  <2>2. \A q \in Pools : q = Global \/ ~Exists(q)' => parent'[q] = NULL /\ owner'[q] = NULL
    BY <1>2, <1>4, <1>5 DEF TreeTyped
  <2> QED BY <1>2, <1>6, <2>1, <2>2 DEF TreeTyped
<1>10. Kids(p) = {}
  <2>1. child[p] = <<>>
    BY <1>1 DEF FrameOK
  <2> QED BY <1>1, <1>2, <2>1, ListsIs DEF TreeTyped
<1>11. ChildrenSound'
  <2> SUFFICES ASSUME NEW q \in Pools, NEW r \in Kids(q) PROVE parent'[r] = q /\ Exists(r)' /\ ~Unlinked(r)'
    BY <1>6 DEF ChildrenSound
  <2>1. r \in Pools /\ parent[r] = q /\ Exists(r) /\ ~Unlinked(r)
    BY KidIs
  <2>2. Unlinked(p)
    BY DEF Unlinked
  <2> QED BY <1>4, <2>1, <2>2
<1>12. ParentsSound'
  <2>1. ASSUME NEW r \in Pools, Exists(r)', r # Global
        PROVE  ChildOf(r, parent[r])' /\ Global \in AboveIn(parent', r)
    <3>1. r # p /\ Exists(r)
      BY <2>1
    <3>2. ChildOf(r, parent[r]) /\ Global \in AboveIn(parent, r)
      BY <1>2, <2>1, <3>1 DEF ParentsSound
    <3>3. parent'[r] = parent[r] /\ parent[r] # p /\ parent[r] \in Pools
      BY <1>3, <1>4, <3>1, <3>2 DEF ChildOf
    <3>4. \A x : x = parent[r] => ChildOf(r, x)'
      BY <1>4, <1>6, <3>1, <3>2, <3>3 DEF ChildOf
    <3>5. Global \in AboveIn(parent', r)
      BY <1>7, <3>1, <3>2
    <3> QED BY <3>3, <3>4, <3>5 DEF ChildOf
  <2>2. \A r \in Pools : r \notin AboveIn(parent', r)
    BY <1>2, <1>7, <1>8 DEF ParentsSound
  <2> QED BY <2>1, <2>2 DEF ParentsSound
<1> QED BY <1>7, <1>9, <1>11, <1>12 DEF TreeSoundly

\* ~Pool returns.
LEMMA CallsFree ==
    ASSUME CallsSound, TreeSoundly, NEW t \in Threads, FreeNodes(t),
           NEW h, h = Head(frames[t]),
           ~Exists(h.pool)', \A q \in Pools : q # h.pool => (Exists(q)' <=> Exists(q))
    PROVE  CallsSound' /\ TreeSoundly' /\ ~deleted
<1>1. /\ Reached(t, "free")
      /\ frames' = [frames EXCEPT ![t] = Tail(@)]
      /\ owner' = [owner EXCEPT ![h.pool] = NULL] /\ parent' = [parent EXCEPT ![h.pool] = NULL]
      /\ UNCHANGED <<child, preCleanups, cleanups, spare, making, users, deleted>>
  BY DEF FreeNodes, listVars
<1>2. /\ frames[t] # <<>> /\ h \in Calls(t) /\ ~h.calling /\ h.pool \in Pools /\ h.at = "unlinked"
      /\ FrameOK(t, h)
  BY <1>1, ReachedIs
<1>3. ~deleted /\ Exists(Global) /\ Global \in Pools
  BY <1>2, Alive, PoolAssumption
<1>4. /\ \A r \in Pools : r # h.pool => h.pool \notin AboveIn(parent, r)
      /\ h.pool = Global => \A r \in Pools : Exists(r) => r = h.pool
  BY <1>2, NothingBelow
<1>5. Parents(parent) /\ owner \in [Pools -> Threads \cup {NULL}]
  BY DEF TreeSoundly, TreeTyped
<1>6. \A q \in Pools : q # h.pool => (Exists(q)' <=> Exists(q)) /\ owner'[q] = owner[q] /\ StaysEmpty(q)
  BY <1>1, <1>5 DEF StaysEmpty
<1>7. ASSUME NEW q \in Pools, q # h.pool PROVE AboveIn(parent', q) \subseteq AboveIn(parent, q)
  <2>1. \A r \in Pools : parent'[r] = parent[r] \/ parent'[r] = NULL
    BY <1>1, <1>5 DEF Parents
  <2> QED BY <1>5, <2>1, AboveLess
<1>8. /\ FramesSound' /\ MakingSound'
      /\ \A r : r # h.pool => (Unlinked(r)' <=> Unlinked(r))
  BY <1>1, <1>2, <1>6, <1>7, CallsPop
<1>9. TreeSoundly'
  BY <1>1, <1>2, <1>8, TreeFreed
<1>10. UsersSound'
  <2>1. \A u \in Threads : frames'[u] # <<>> => frames[u] # <<>>
    <3>1. \A u \in Threads : frames'[u] = IF u = t THEN Tail(frames[t]) ELSE frames[u]
      BY <1>1 DEF CallsSound, FramesSound, FramesTyped
    <3> QED BY <1>2, <3>1
  <2>2. UsersSound
    BY DEF CallsSound
  <2>3. users = {} => \A u, v \in Threads : frames'[u] # <<>> /\ frames'[v] # <<>> => u = v
    BY <2>1, <2>2 DEF UsersSound
  <2>4. users # {} => \A u \in Threads : u \notin users => frames'[u] = <<>>
    BY <2>1, <2>2 DEF UsersSound
  <2>5. ~Exists(Global)' => users = {} /\ \A q \in Pools : ~Exists(q)'
    <3>1. ~Exists(Global)' => h.pool = Global
      BY <1>3
    <3> QED BY <1>2, <1>4, <3>1 DEF FrameOK
  <2> QED BY <1>1, <1>3, <2>2, <2>3, <2>4, <2>5 DEF UsersSound
<1> QED BY <1>3, <1>8, <1>9, <1>10 DEF CallsSound

\* terminate().
LEMMA CallsTerminate ==
    ASSUME CallsSound, TreeSoundly, NEW t \in Threads, Terminate(t), \A q \in Pools : Exists(q)' <=> Exists(q)
    PROVE  CallsSound' /\ TreeSoundly' /\ ~deleted
<1>1. /\ t \in users /\ frames[t] = <<>> /\ making[t] = <<>> /\ users' = users \ {t}
      /\ IF users = {t} THEN frames' = [frames EXCEPT ![t] = <<Begun(Global, FALSE)>> \o @] ELSE frames' = frames
      /\ UNCHANGED <<owner, parent, child, preCleanups, cleanups, spare, making, deleted>>
  BY DEF Terminate, Begin, treeVars, listVars
<1>2. ~deleted /\ Exists(Global) /\ Global \in Pools
  BY <1>1, Alive, PoolAssumption
<1>3. /\ FramesTyped /\ UsersSound /\ users \subseteq Threads /\ users # {}
      /\ \A u \in Threads : u \notin users => frames[u] = <<>>
  BY <1>1 DEF CallsSound, FramesSound, UsersSound
<1>4. PICK s : s = IF users = {t} THEN <<Begun(Global, FALSE)>> \o <<>> ELSE <<>>
  OBVIOUS
<1>5. Moved(t, s)
  BY <1>1, <1>3, <1>4 DEF Moved, FramesTyped
<1>6. PICK g : g = Begun(Global, FALSE)
  OBVIOUS
<1>7. g \in Frame /\ g.pool = Global /\ g.at = "pre" /\ ~g.clear
  <2>1. g \in Frame /\ g.pool = Global /\ g.at = "pre"
    BY <1>2, <1>6 DEF Begun, Frame
  <2>2. g.clear = FALSE
    BY <1>6 DEF Begun
  <2> QED BY <2>1, <2>2
<1>8. /\ Stacked(s, parent) /\ \A f \in ToSet(s) : users = {t} /\ f = g
  <2>1. CASE users = {t}
    <3>1. Stacked(<<>>, parent) /\ ToSet(<<>>) = {}
      BY StackEmpty
    <3>2. Stacked(<<g>> \o <<>>, parent) /\ ToSet(<<g>> \o <<>>) = Plus({}, g)
      BY <1>7, <3>1, StackCons
    <3> QED BY <1>4, <1>6, <2>1, <3>2 DEF Plus
  <2>2. CASE users # {t}
    BY <1>4, <2>2, StackEmpty
  <2> QED BY <2>1, <2>2
<1>9. users = {t} => users' = {}
  BY <1>1
<1>10. users # {t} => users' # {}
  BY <1>1
<1>11. ASSUME NEW u \in Threads, u # t, NEW f \in Calls(u) PROVE users # {t} /\ FrameOK(u, f)'
  <2>1. FrameOK(u, f) /\ f.pool \in Pools /\ Exists(f.pool)' /\ frames[u] # <<>>
    BY CallsIs DEF CallsSound, FrameOK
  <2>2. u \in users
    BY <1>3, <2>1
  <2>3. users # {t}
    BY <1>11, <2>2
  <2>4. users = {} <=> users' = {}
    BY <1>3, <1>10, <2>3
  <2> QED BY <1>1, <2>1, <2>3, <2>4, FrameKept
<1>12. FramesSound'
  <2>1. \A u \in Threads : Stacked(frames[u], parent')
    BY <1>1, CallsIs DEF CallsSound
  <2>2. Stacked(s, parent')
    BY <1>1, <1>8
  <2>3. users = {t} => FrameOK(t, g)'
    BY <1>2, <1>7, <1>9 DEF FrameOK
  <2>4. \A f \in ToSet(s) : FrameOK(t, f)'
    BY <1>8, <2>3
  <2> QED BY <1>5, <1>11, <2>1, <2>2, <2>4, FramesMoved
<1>13. UsersSound'
  <2>1. \A u \in Threads : u # t => frames'[u] = frames[u]
    BY <1>5 DEF Moved
  <2>2. users' = {} => users = {t}
    BY <1>10
  <2>3. users = {t} => \A u \in Threads : u # t => frames'[u] = <<>>
    BY <1>3, <2>1
  <2>4. users' = {} => \A u, v \in Threads : frames'[u] # <<>> /\ frames'[v] # <<>> => u = v
    BY <2>2, <2>3
  <2>5. users' # {} => \A u \in Threads : u \notin users' => frames'[u] = <<>>
    <3>1. users # {t} => frames' = frames
      BY <1>1
    <3> QED BY <1>1, <1>3, <1>9, <3>1
  <2>6. Exists(Global)' /\ ~deleted' /\ deleted' \in BOOLEAN
    <3>1. deleted \in BOOLEAN /\ deleted' = deleted
      BY <1>1, <1>3 DEF UsersSound
    <3>2. ~deleted' /\ deleted' \in BOOLEAN
      BY <1>2, <3>1
    <3> QED BY <1>2, <3>2
  <2>7. users' \subseteq Threads
    BY <1>1, <1>3
  <2> QED BY <2>4, <2>5, <2>6, <2>7 DEF UsersSound
<1>14. MakingSound'
  <2> SUFFICES ASSUME NEW u \in Threads, making[u] # <<>>
               PROVE  /\ Exists(making[u][1])' /\ owner'[making[u][1]] = owner[making[u][1]]
                      /\ u \in users => u \in users'
                      /\ \A f \in ToSet(s) : f.pool = making[u][1] => f.at \in {"pre", "children"}
    BY <1>1, <1>5, MakingMoved
  <2>1. Maker(u, making[u][1])
    BY DEF CallsSound, MakingSound
  <2>2. u # t
    BY <1>1
  <2> QED BY <1>1, <1>7, <1>8, <2>1, <2>2 DEF Maker
<1>15. TreeSoundly'
  <2>1. \A f \in ToSet(s) : f.at # "unlinked"
    BY <1>7, <1>8
  <2>2. Calls(t) = {}
    BY <1>1, StackEmpty DEF Calls
  <2>3. \A r : Unlinked(r)' <=> Unlinked(r)
    BY <1>5, <2>1, <2>2, UnlinkedMoved
  <2> QED BY <1>1, <2>3, TreeFrame
<1> QED BY <1>2, <1>12, <1>13, <1>14, <1>15 DEF CallsSound

\* The allocator is deleted.
LEMMA CallsDelete ==
    ASSUME CallsSound, TreeSoundly, ~Exists(Global), deleted' = TRUE, heap' = {},
           UNCHANGED <<treeVars, listVars, frames, making, users>>,
           \A q \in Pools : Exists(q)' <=> Exists(q)
    PROVE  /\ CallsSound' /\ TreeSoundly'
           /\ (\A q \in Pools : ~Exists(q)) /\ \A t \in Threads : making[t] = <<>>
<1>1. UNCHANGED <<owner, parent, child, preCleanups, cleanups, spare>>
  BY DEF treeVars, listVars
<1>2. Global \in Pools
  BY PoolAssumption
<1>3. \A q \in Pools : ~Exists(q)
  BY DEF CallsSound, UsersSound
<1>4. \A t \in Threads : Calls(t) = {} /\ Calls(t)' = {}
  <2> SUFFICES ASSUME NEW t \in Threads PROVE Calls(t) = {}
    BY DEF Calls
  <2>1. \A f \in Calls(t) : f.pool \in Pools /\ Exists(f.pool)
    BY CallsIs DEF CallsSound, FrameOK
  <2> QED BY <1>3, <2>1
<1>5. \A t \in Threads : making[t] = <<>>
  BY <1>3 DEF CallsSound, MakingSound, Maker
<1>6. FramesSound'
  BY <1>1, <1>4 DEF CallsSound, FramesSound, FramesTyped
<1>7. UsersSound'
  BY <1>2, <1>3 DEF CallsSound, UsersSound
<1>8. MakingSound'
  BY <1>5 DEF MakingSound
<1>9. TreeSoundly'
  BY <1>1, UnlinkedFrame, TreeFrame
<1> QED BY <1>3, <1>5, <1>6, <1>7, <1>8, <1>9 DEF CallsSound

LEMMA CallsInit == Init => CallsSound /\ TreeSoundly
<1> SUFFICES ASSUME Init PROVE CallsSound /\ TreeSoundly
  OBVIOUS
<1>1. Exists(Global) /\ \A p \in Pools : p # Global => ~Exists(p)
  BY NodesInit
<1>2. /\ owner = [p \in Pools |-> NULL] /\ parent = [p \in Pools |-> NULL]
      /\ child = [p \in Pools |-> <<>>]
      /\ frames = [t \in Threads |-> <<>>] /\ making = [t \in Threads |-> <<>>]
      /\ users = Threads /\ deleted = FALSE
  BY DEF Init
<1>3. \A t \in Threads : frames[t] = <<>> /\ making[t] = <<>> /\ Calls(t) = {}
  BY <1>2, StackEmpty DEF Calls
<1>4. FramesSound
  <2>1. FramesTyped
    BY <1>2 DEF FramesTyped
  <2> QED BY <1>3, <2>1, StackEmpty DEF FramesSound
<1>5. UsersSound /\ MakingSound
  BY <1>1, <1>2, <1>3, PoolAssumption DEF UsersSound, MakingSound
<1>6. \A p \in Pools : child[p] = <<>> /\ parent[p] = NULL /\ owner[p] = NULL
  BY <1>2
<1>7. \A p \in Pools : Kids(p) = {} /\ Lists(child[p], Pools, Kids(p))
  <2> SUFFICES ASSUME NEW p \in Pools PROVE Kids(p) = {} /\ Lists(child[p], Pools, Kids(p))
    OBVIOUS
  <2>1. Kids(p) = {}
    BY <1>6, StackEmpty DEF Kids
  <2> QED BY <1>6, <2>1, ListsEmpty
<1>8. TreeTyped
  BY <1>2, <1>6, <1>7 DEF TreeTyped, Parents
<1>9. ParentsSound
  BY <1>1, <1>6, AboveNothing DEF ParentsSound
<1> QED BY <1>4, <1>5, <1>7, <1>8, <1>9 DEF CallsSound, TreeSoundly, ChildrenSound

-------------------------------------------------------------------------------
\* The lists of cleanups.

Spots == Nodes \X Nat
Entry == [what : Cleanups, at : Spots]

Late(p) == ToSet(cleanups[p])
Early(p) == ToSet(preCleanups[p])
Spare(p) == ToSet(spare[p])
Entries(p) == Late(p) \cup Early(p)

\* The structure at a lies in what p has handed out.
Within(p, a) == a[1] \in In(p) /\ a[2] + CleanupSize <= used[a[1]]

ListsTyped ==
    /\ DOMAIN cleanups = Pools /\ cleanups = [p \in Pools |-> cleanups[p]]
    /\ DOMAIN preCleanups = Pools /\ preCleanups = [p \in Pools |-> preCleanups[p]]
    /\ DOMAIN spare = Pools /\ spare = [p \in Pools |-> spare[p]]
    /\ \A p \in Pools : /\ Lists(cleanups[p], Entry, Late(p)) /\ Lists(preCleanups[p], Entry, Early(p))
                        /\ Lists(spare[p], Spots, Spare(p))
    /\ stage \in [Cleanups -> {"new", "registered", "run"}]

\* What is registered is in one list of one pool, once.
StagesSound ==
    /\ \A p \in Pools : \A e \in Entries(p) : stage[e.what] = "registered"
    /\ \A p, q \in Pools : \A e \in Entries(p) : \A f \in Entries(q) : e.what = f.what => p = q
    /\ \A c \in Cleanups : stage[c] = "registered" =>
            \E p \in Pools : \E e \in Entries(p) : e.what = c

\* The lists of one pool.
PoolSound(p) ==
    /\ ~Exists(p) => Entries(p) = {} /\ Spare(p) = {}
    /\ \A e \in Late(p) : e \notin Early(p)
    /\ \A e, f \in Entries(p) : e.what = f.what \/ e.at = f.at => e = f
    /\ \A e \in Entries(p) : e.at \notin Spare(p) /\ Within(p, e.at)
    /\ \A a \in Spare(p) : Within(p, a)

ListsSound == ListsTyped /\ StagesSound /\ \A p \in Pools : PoolSound(p)

SameLists(p) ==
    cleanups'[p] = cleanups[p] /\ preCleanups'[p] = preCleanups[p] /\ spare'[p] = spare[p]

\* What p has handed out it has still.
Holds(p) == (Exists(p) => Exists(p)') /\ \A a \in Spots : Within(p, a) => Within(p, a)'

LEMMA ListsAre ==
    ASSUME ListsSound, NEW p \in Pools
    PROVE  /\ Lists(cleanups[p], Entry, Late(p)) /\ Lists(preCleanups[p], Entry, Early(p))
           /\ Lists(spare[p], Spots, Spare(p)) /\ Entries(p) \subseteq Entry /\ Spare(p) \subseteq Spots
           /\ \A e \in Entries(p) : e.what \in Cleanups /\ e.at \in Spots
           /\ (cleanups[p] = <<>> <=> Late(p) = {}) /\ (preCleanups[p] = <<>> <=> Early(p) = {})
           /\ (spare[p] = <<>> <=> Spare(p) = {})
           /\ PoolSound(p)
<1>1. /\ Lists(cleanups[p], Entry, Late(p)) /\ Lists(preCleanups[p], Entry, Early(p))
      /\ Lists(spare[p], Spots, Spare(p)) /\ PoolSound(p)
  BY DEF ListsSound, ListsTyped
<1>2. /\ Late(p) \subseteq Entry /\ Early(p) \subseteq Entry /\ Spare(p) \subseteq Spots
      /\ (cleanups[p] = <<>> <=> Late(p) = {}) /\ (preCleanups[p] = <<>> <=> Early(p) = {})
      /\ (spare[p] = <<>> <=> Spare(p) = {})
  BY <1>1, ListsIs
<1>3. \A e \in Entry : e.what \in Cleanups /\ e.at \in Spots
  BY DEF Entry
<1> QED BY <1>1, <1>2, <1>3 DEF Entries

\* Nothing happens to the lists of p.
LEMMA PoolSame ==
    ASSUME ListsSound, NEW p \in Pools, SameLists(p), Holds(p)
    PROVE  PoolSound(p)' /\ Late(p)' = Late(p) /\ Early(p)' = Early(p) /\ Spare(p)' = Spare(p)
           /\ Entries(p)' = Entries(p)
<1>1. Late(p)' = Late(p) /\ Early(p)' = Early(p) /\ Spare(p)' = Spare(p) /\ Entries(p)' = Entries(p)
  BY DEF SameLists, Late, Early, Spare, Entries
<1>2. PoolSound(p) /\ Spare(p) \subseteq Spots /\ \A e \in Entries(p) : e.at \in Spots
  BY ListsAre
<1> QED BY <1>1, <1>2 DEF PoolSound, Holds

\* Nothing happens to any list.
LEMMA ListsSame ==
    ASSUME ListsSound, UNCHANGED listVars, \A p \in Pools : Holds(p)
    PROVE  ListsSound'
<1>1. \A p \in Pools : SameLists(p)
  BY DEF listVars, SameLists
<1>2. \A p \in Pools : PoolSound(p)'
  BY <1>1, PoolSame
<1>3. UNCHANGED <<cleanups, preCleanups, spare, stage>>
  BY DEF listVars
<1>4. \A p \in Pools : Late(p)' = Late(p) /\ Early(p)' = Early(p) /\ Spare(p)' = Spare(p) /\ Entries(p)' = Entries(p)
  BY <1>3 DEF Late, Early, Spare, Entries
<1>5. ListsTyped'
  BY <1>3, <1>4 DEF ListsSound, ListsTyped
<1>6. StagesSound'
  BY <1>3, <1>4 DEF ListsSound, StagesSound
<1> QED BY <1>2, <1>5, <1>6 DEF ListsSound

\* The lists of p change, the others do not.
Relisted(p) ==
    /\ DOMAIN cleanups' = Pools /\ cleanups' = [q \in Pools |-> cleanups'[q]]
    /\ DOMAIN preCleanups' = Pools /\ preCleanups' = [q \in Pools |-> preCleanups'[q]]
    /\ DOMAIN spare' = Pools /\ spare' = [q \in Pools |-> spare'[q]]
    /\ \A q \in Pools : q # p => SameLists(q) /\ Holds(q)
    /\ Lists(cleanups'[p], Entry, Late(p)') /\ Lists(preCleanups'[p], Entry, Early(p)')
    /\ Lists(spare'[p], Spots, Spare(p)')

LEMMA RelistedSound ==
    ASSUME ListsSound, NEW p \in Pools, Relisted(p), PoolSound(p)', StagesSound',
           stage' \in [Cleanups -> {"new", "registered", "run"}]
    PROVE  ListsSound'
<1>1. ASSUME NEW q \in Pools
      PROVE  /\ Lists(cleanups'[q], Entry, Late(q)') /\ Lists(preCleanups'[q], Entry, Early(q)')
             /\ Lists(spare'[q], Spots, Spare(q)') /\ PoolSound(q)'
  <2>1. CASE q = p
    BY <2>1 DEF Relisted
  <2>2. CASE q # p
    <3>1. SameLists(q) /\ Holds(q)
      BY <2>2 DEF Relisted
    <3>2. PoolSound(q)' /\ Late(q)' = Late(q) /\ Early(q)' = Early(q) /\ Spare(q)' = Spare(q)
      BY <3>1, PoolSame
    <3> QED BY <3>1, <3>2, ListsAre DEF SameLists
  <2> QED BY <2>1, <2>2
<1>2. ListsTyped'
  BY <1>1 DEF ListsTyped, Relisted
<1> QED BY <1>1, <1>2 DEF ListsSound

LEMMA OthersEntries ==
    ASSUME ListsSound, NEW p \in Pools, Relisted(p)
    PROVE  \A q \in Pools : q # p => Entries(q)' = Entries(q)
BY PoolSame DEF Relisted

\* A cleanup is registered with p,
LEMMA StagesEntered ==
    ASSUME ListsSound, NEW p \in Pools, Relisted(p), NEW e \in Entry, Entries(p)' = Plus(Entries(p), e),
           stage[e.what] = "new", stage' = [stage EXCEPT ![e.what] = "registered"]
    PROVE  StagesSound' /\ stage' \in [Cleanups -> {"new", "registered", "run"}]
<1>1. \A q \in Pools : q # p => Entries(q)' = Entries(q)
  BY OthersEntries
<1>2. /\ stage \in [Cleanups -> {"new", "registered", "run"}] /\ StagesSound /\ e.what \in Cleanups
  BY DEF ListsSound, ListsTyped, Entry
<1>3. /\ stage' \in [Cleanups -> {"new", "registered", "run"}] /\ stage'[e.what] = "registered"
      /\ \A c \in Cleanups : c # e.what => stage'[c] = stage[c]
  BY <1>2
<1>4. \A q \in Pools : \A f : f \in Entries(q)' <=> f \in Entries(q) \/ (q = p /\ f = e)
  BY <1>1 DEF Plus
<1>5. \A q \in Pools : \A f \in Entries(q) : f.what \in Cleanups /\ stage[f.what] = "registered"
  BY <1>2, ListsAre DEF StagesSound
<1>6. \A q \in Pools : \A f \in Entries(q) : f.what # e.what
  BY <1>5
<1>7. \A q \in Pools : \A f \in Entries(q)' : stage'[f.what] = "registered"
  BY <1>3, <1>4, <1>5, <1>6
<1>8. \A q, r \in Pools : \A f \in Entries(q)' : \A g \in Entries(r)' : f.what = g.what => q = r
  BY <1>2, <1>4, <1>6 DEF StagesSound
<1>9. ASSUME NEW c \in Cleanups, stage'[c] = "registered"
      PROVE  \E q \in Pools : \E f \in Entries(q)' : f.what = c
  <2>1. CASE c = e.what
    BY <1>4, <2>1
  <2>2. CASE c # e.what
    <3>1. \E q \in Pools : \E f \in Entries(q) : f.what = c
      BY <1>2, <1>3, <1>9, <2>2 DEF StagesSound
    <3> QED BY <1>4, <3>1
  <2> QED BY <2>1, <2>2
<1> QED BY <1>3, <1>7, <1>8, <1>9 DEF StagesSound

\* ... or killed or run.
LEMMA StagesLeft ==
    ASSUME ListsSound, NEW p \in Pools, Relisted(p), NEW e \in Entries(p), Entries(p)' = Minus(Entries(p), e),
           NEW s \in {"new", "run"}, stage' = [stage EXCEPT ![e.what] = s]
    PROVE  StagesSound' /\ stage' \in [Cleanups -> {"new", "registered", "run"}]
<1>1. \A q \in Pools : q # p => Entries(q)' = Entries(q)
  BY OthersEntries
<1>2. /\ stage \in [Cleanups -> {"new", "registered", "run"}] /\ StagesSound /\ e.what \in Cleanups /\ PoolSound(p)
  BY ListsAre DEF ListsSound, ListsTyped
<1>3. /\ stage' \in [Cleanups -> {"new", "registered", "run"}] /\ stage'[e.what] # "registered"
      /\ \A c \in Cleanups : c # e.what => stage'[c] = stage[c]
  BY <1>2
<1>4. \A q \in Pools : \A f : f \in Entries(q)' <=> f \in Entries(q) /\ ~(q = p /\ f = e)
  BY <1>1 DEF Minus
<1>5. \A q \in Pools : \A f \in Entries(q) : f.what \in Cleanups /\ stage[f.what] = "registered"
  BY <1>2, ListsAre DEF StagesSound
<1>6. \A q \in Pools : \A f \in Entries(q) : f.what = e.what => q = p /\ f = e
  BY <1>2 DEF StagesSound, PoolSound
<1>7. \A q \in Pools : \A f \in Entries(q)' : stage'[f.what] = "registered"
  BY <1>3, <1>4, <1>5, <1>6
<1>8. \A q, r \in Pools : \A f \in Entries(q)' : \A g \in Entries(r)' : f.what = g.what => q = r
  BY <1>2, <1>4 DEF StagesSound
<1>9. ASSUME NEW c \in Cleanups, stage'[c] = "registered"
      PROVE  \E q \in Pools : \E f \in Entries(q)' : f.what = c
  <2>1. c # e.what
    BY <1>3, <1>9
  <2>2. \E q \in Pools : \E f \in Entries(q) : f.what = c
    BY <1>2, <1>3, <1>9, <2>1 DEF StagesSound
  <2> QED BY <1>4, <2>1, <2>2
<1> QED BY <1>3, <1>7, <1>8, <1>9 DEF StagesSound

\* Memory is taken, or not: what was handed out is so still.
LEMMA HoldsSame ==
    ASSUME \A p \in Pools : In(p)' = In(p) /\ (Exists(p)' <=> Exists(p)), used' = used
    PROVE  \A p \in Pools : Holds(p)
BY DEF Holds, Within

LEMMA HoldsGrown ==
    ASSUME NodesSound, NEW p \in Pools, NEW n \in Nodes, NEW size \in Nat, Grown(p, n, size)
    PROVE  \A q \in Pools : Holds(q)
<1> SUFFICES ASSUME NEW q \in Pools, NEW a \in Spots, Within(q, a) PROVE Within(q, a)'
  BY DEF Holds, Grown
<1>1. In(q) \subseteq Nodes /\ used \in [Nodes -> Nat]
  BY RingIs DEF NodesSound, RoomSound
<1>2. a[1] \in In(q) /\ a[1] \in Nodes /\ a[2] \in Nat /\ a[2] + CleanupSize <= used[a[1]]
  BY <1>1 DEF Within, Spots
<1>3. a[1] \in In(q)'
  BY <1>2 DEF Grown, Plus
<1>4. used[a[1]] \in Nat /\ used'[a[1]] \in Nat /\ used[a[1]] <= used'[a[1]]
  <2>1. used[a[1]] \in Nat /\ used'[a[1]] \in Nat
    BY <1>1, <1>2 DEF Grown, Taken
  <2>2. used'[a[1]] = used[a[1]] \/ used'[a[1]] = used[a[1]] + size
    BY <1>2 DEF Grown, Taken
  <2> QED BY <2>1, <2>2
<1>5. CleanupSize \in Nat
  BY PoolAssumption
<1>6. a[2] + CleanupSize <= used'[a[1]]
  BY <1>2, <1>4, <1>5
<1> QED BY <1>3, <1>6 DEF Within

\* A place for a structure of p is found at a.
Found(p, a) ==
    /\ a \in Spots /\ Within(p, a)' /\ a \notin Spare(p)' /\ Spare(p)' \subseteq Spare(p)
    /\ \A e \in Entries(p) : e.at # a
    /\ DOMAIN spare' = Pools /\ spare' = [q \in Pools |-> spare'[q]]
    /\ Lists(spare'[p], Spots, Spare(p)') /\ \A q \in Pools : q # p => spare'[q] = spare[q]

LEMMA StructureSound ==
    ASSUME NodesSound, ListsSound, ~deleted, NEW p \in Pools, Exists(p), NEW a \in Places(p), Structure(p, a),
           UNCHANGED <<self, making, deleted>>
    PROVE  /\ NodesSound' /\ Found(p, a)
           /\ \A q \in Pools : Holds(q) /\ (Exists(q)' <=> Exists(q))
<1>1. /\ Lists(spare[p], Spots, Spare(p)) /\ Entries(p) \subseteq Entry /\ Spare(p) \subseteq Spots
      /\ (\A e \in Entries(p) : e.at \in Spots) /\ PoolSound(p)
      /\ (spare[p] = <<>> <=> Spare(p) = {})
  BY ListsAre
<1>2. DOMAIN spare = Pools /\ spare = [q \in Pools |-> spare[q]]
  BY DEF ListsSound, ListsTyped
<1>3. CASE spare[p] # <<>>
  <2>1. /\ a = Head(spare[p]) /\ spare' = [spare EXCEPT ![p] = Tail(@)]
        /\ UNCHANGED <<allocatorVars, nodeVars>>
    BY <1>3 DEF Structure
  <2>2. NodesSound' /\ \A q \in Pools : In(q)' = In(q) /\ (Exists(q)' <=> Exists(q))
    BY <2>1, NodesFrame
  <2>3. \A q \in Pools : Holds(q)
    BY <2>1, <2>2, HoldsSame DEF nodeVars
  <2>4. Lists(Tail(spare[p]), Spots, Minus(Spare(p), a)) /\ a \in Spare(p)
    BY <1>1, <1>3, <2>1, ListsTail
  <2>5. /\ DOMAIN spare' = Pools /\ spare' = [q \in Pools |-> spare'[q]]
        /\ spare'[p] = Tail(spare[p]) /\ \A q \in Pools : q # p => spare'[q] = spare[q]
    BY <1>2, <2>1
  <2>6. Spare(p)' = Minus(Spare(p), a)
    BY <2>4, <2>5 DEF Spare, Lists
  <2>7. a \in Spots /\ Within(p, a) /\ \A e \in Entries(p) : e.at # a
    BY <1>1, <2>4 DEF PoolSound
  <2>8. Within(p, a)'
    BY <2>3, <2>7 DEF Holds
  <2>9. a \notin Spare(p)' /\ Spare(p)' \subseteq Spare(p)
    BY <2>6 DEF Minus
  <2> QED BY <2>2, <2>3, <2>4, <2>5, <2>6, <2>7, <2>8, <2>9 DEF Found
<1>4. CASE spare[p] = <<>>
  <2>1. a = Place(p, a[1]) /\ Palloc(p, CleanupSize, a[1]) /\ spare' = spare
    BY <1>4 DEF Structure
  <2>2. PICK n \in Nodes : a = Place(p, n)
    <3>1. Spare(p) = {}
      BY <1>1, <1>4
    <3> QED BY <3>1 DEF Places, Spare
  <2>3. a[1] = n
    BY <2>2 DEF Place
  <2>4. CleanupSize \in Nat /\ CleanupSize # 0
    BY PoolAssumption
  <2>5. NodesSound' /\ Grown(p, n, CleanupSize)
    BY <2>1, <2>3, <2>4, PallocSound
  <2>6. a = <<n, used[n]>> /\ n \in In(p)' /\ used'[n] = used[n] + CleanupSize
    BY <2>2, <2>5 DEF Grown, Plus, Taken
  <2>7. used[n] \in Nat
    BY DEF NodesSound, RoomSound
  <2>8. a \in Spots /\ a[2] = used[n]
    BY <2>6, <2>7 DEF Spots
  <2>9. Within(p, a)'
    <3>1. a[2] + CleanupSize <= used'[a[1]]
      BY <2>3, <2>4, <2>6, <2>7, <2>8
    <3> QED BY <2>3, <2>6, <3>1 DEF Within
  <2>10. ~Within(p, a)
    BY <2>3, <2>4, <2>7, <2>8 DEF Within
  <2>11. \A e \in Entries(p) : e.at # a
    BY <1>1, <2>10 DEF PoolSound
  <2>12. Spare(p)' = Spare(p) /\ Spare(p) = {}
    BY <1>1, <1>4, <2>1 DEF Spare
  <2>13. \A q \in Pools : Holds(q)
    BY <2>4, <2>5, HoldsGrown
  <2>14. \A q \in Pools : Exists(q)' <=> Exists(q)
    BY <2>5 DEF Grown
  <2> QED BY <1>1, <1>2, <2>1, <2>5, <2>8, <2>9, <2>11, <2>12, <2>13, <2>14 DEF Found
<1> QED BY <1>3, <1>4

\* Entered puts e in front.
LEMMA EnteredIs ==
    ASSUME NEW lists, DOMAIN lists = Pools, lists = [q \in Pools |-> lists[q]], NEW p \in Pools,
           NEW T, Lists(lists[p], Entry, T), NEW c \in Cleanups, NEW a \in Spots,
           NEW e, e = [what |-> c, at |-> a], e \notin T, NEW new, new = Entered(lists, p, c, a)
    PROVE  /\ DOMAIN new = Pools /\ new = [q \in Pools |-> new[q]]
           /\ Lists(new[p], Entry, Plus(T, e)) /\ ToSet(new[p]) = Plus(T, e)
           /\ (\A q \in Pools : q # p => new[q] = lists[q])
           /\ e \in Entry /\ e.what = c /\ e.at = a
<1>1. e \in Entry /\ e.what = c /\ e.at = a
  BY DEF Entry
<1>2. /\ DOMAIN new = Pools /\ new = [q \in Pools |-> new[q]]
      /\ new[p] = <<e>> \o lists[p] /\ \A q \in Pools : q # p => new[q] = lists[q]
  BY DEF Entered
<1>3. Lists(<<e>> \o lists[p], Entry, Plus(T, e))
  BY <1>1, ListsCons
<1>4. Lists(new[p], Entry, Plus(T, e))
  BY <1>2, <1>3
<1> QED BY <1>1, <1>2, <1>4 DEF Lists

\* The lists of p with e more.
LEMMA PoolEntered ==
    ASSUME ListsSound, NEW p \in Pools, NEW a, Found(p, a), Holds(p), Exists(p)', NEW e \in Entry, e.at = a,
           stage[e.what] = "new", Entries(p)' = Plus(Entries(p), e),
           \A f \in Late(p)' : f \notin Early(p)'
    PROVE  PoolSound(p)'
<1>1. PoolSound(p) /\ \A f \in Entries(p) : f.at \in Spots
  BY ListsAre
<1>2. \A f \in Entries(p) : stage[f.what] = "registered"
  BY DEF ListsSound, StagesSound
<1>3. \A f \in Entries(p) : f.what # e.what /\ f.at # a
  BY <1>2 DEF Found
<1>4. \A f, g \in Entries(p)' : f.what = g.what \/ f.at = g.at => f = g
  BY <1>1, <1>3 DEF PoolSound, Plus
<1>5. \A f \in Entries(p)' : f.at \notin Spare(p)' /\ Within(p, f.at)'
  <2>1. \A f \in Entries(p) : f.at \notin Spare(p)' /\ Within(p, f.at)'
    BY <1>1 DEF PoolSound, Found, Holds
  <2>2. a \notin Spare(p)' /\ Within(p, a)'
    BY DEF Found
  <2> QED BY <2>1, <2>2 DEF Plus
<1>6. \A x \in Spare(p)' : Within(p, x)'
  <2>1. Spare(p)' \subseteq Spare(p) /\ Spare(p) \subseteq Spots
    BY ListsAre DEF Found
  <2> QED BY <1>1, <2>1 DEF PoolSound, Holds
<1> QED BY <1>4, <1>5, <1>6 DEF PoolSound

LEMMA ListsRegister ==
    ASSUME NodesSound, ListsSound, ~deleted, NEW p \in Pools, Exists(p), NEW a \in Places(p), Structure(p, a),
           UNCHANGED <<self, making, deleted>>, NEW c \in Cleanups, stage[c] = "new",
           stage' = [stage EXCEPT ![c] = "registered"],
           \/ cleanups' = Entered(cleanups, p, c, a) /\ preCleanups' = preCleanups
           \/ preCleanups' = Entered(preCleanups, p, c, a) /\ cleanups' = cleanups
    PROVE  /\ NodesSound' /\ ListsSound' /\ \A q \in Pools : Exists(q)' <=> Exists(q)
           /\ \A q \in Pools : q # p => SameLists(q)
<1>1. /\ NodesSound' /\ Found(p, a)
      /\ \A q \in Pools : Holds(q) /\ (Exists(q)' <=> Exists(q))
  BY StructureSound
<1>2. PICK e : e = [what |-> c, at |-> a]
  OBVIOUS
<1>3. a \in Spots /\ e \in Entry /\ e.what = c /\ e.at = a
  BY <1>1, <1>2 DEF Found, Entry
<1>4. \A q \in Pools : \A f \in Entries(q) : f # e
  BY <1>3 DEF ListsSound, StagesSound
<1>5. /\ Lists(cleanups[p], Entry, Late(p)) /\ Lists(preCleanups[p], Entry, Early(p)) /\ PoolSound(p)
      /\ e \notin Late(p) /\ e \notin Early(p)
  BY <1>4, ListsAre DEF Entries
<1>6. /\ DOMAIN cleanups = Pools /\ cleanups = [q \in Pools |-> cleanups[q]]
      /\ DOMAIN preCleanups = Pools /\ preCleanups = [q \in Pools |-> preCleanups[q]]
  BY DEF ListsSound, ListsTyped
<1>7. /\ DOMAIN spare' = Pools /\ spare' = [q \in Pools |-> spare'[q]]
      /\ Lists(spare'[p], Spots, Spare(p)') /\ \A q \in Pools : q # p => spare'[q] = spare[q]
  BY <1>1 DEF Found
<1>8. CASE cleanups' = Entered(cleanups, p, c, a) /\ preCleanups' = preCleanups
  <2>1. /\ DOMAIN cleanups' = Pools /\ cleanups' = [q \in Pools |-> cleanups'[q]]
        /\ Lists(cleanups'[p], Entry, Plus(Late(p), e)) /\ ToSet(cleanups'[p]) = Plus(Late(p), e)
        /\ \A q \in Pools : q # p => cleanups'[q] = cleanups[q]
    <3>1. PICK new : new = cleanups'
      OBVIOUS
    <3>2. PICK T : T = Late(p)
      OBVIOUS
    <3>3. new = Entered(cleanups, p, c, a) /\ Lists(cleanups[p], Entry, T) /\ e \notin T
      BY <1>5, <1>8, <3>1, <3>2
    <3>4. /\ DOMAIN new = Pools /\ new = [q \in Pools |-> new[q]]
          /\ Lists(new[p], Entry, Plus(T, e)) /\ ToSet(new[p]) = Plus(T, e)
          /\ \A q \in Pools : q # p => new[q] = cleanups[q]
      BY <1>2, <1>3, <1>6, <3>3, EnteredIs
    <3> QED BY <3>1, <3>2, <3>4
  <2>2. Late(p)' = Plus(Late(p), e) /\ Early(p)' = Early(p)
    BY <1>8, <2>1 DEF Late, Early
  <2>3. Relisted(p)
    BY <1>1, <1>5, <1>6, <1>7, <1>8, <2>1, <2>2 DEF Relisted, SameLists
  <2>4. Entries(p)' = Plus(Entries(p), e) /\ \A f \in Late(p)' : f \notin Early(p)'
    BY <1>5, <2>2 DEF Plus, Entries, PoolSound
  <2>5. PoolSound(p)'
    BY <1>1, <1>3, <2>4, PoolEntered
  <2>6. StagesSound' /\ stage' \in [Cleanups -> {"new", "registered", "run"}]
    BY <1>3, <2>3, <2>4, StagesEntered
  <2>7. ListsSound'
    BY <2>3, <2>5, <2>6, RelistedSound
  <2> QED BY <1>1, <2>3, <2>7 DEF Relisted
<1>9. CASE preCleanups' = Entered(preCleanups, p, c, a) /\ cleanups' = cleanups
  <2>1. /\ DOMAIN preCleanups' = Pools /\ preCleanups' = [q \in Pools |-> preCleanups'[q]]
        /\ Lists(preCleanups'[p], Entry, Plus(Early(p), e)) /\ ToSet(preCleanups'[p]) = Plus(Early(p), e)
        /\ \A q \in Pools : q # p => preCleanups'[q] = preCleanups[q]
    <3>1. PICK new : new = preCleanups'
      OBVIOUS
    <3>2. PICK T : T = Early(p)
      OBVIOUS
    <3>3. new = Entered(preCleanups, p, c, a) /\ Lists(preCleanups[p], Entry, T) /\ e \notin T
      BY <1>5, <1>9, <3>1, <3>2
    <3>4. /\ DOMAIN new = Pools /\ new = [q \in Pools |-> new[q]]
          /\ Lists(new[p], Entry, Plus(T, e)) /\ ToSet(new[p]) = Plus(T, e)
          /\ \A q \in Pools : q # p => new[q] = preCleanups[q]
      BY <1>2, <1>3, <1>6, <3>3, EnteredIs
    <3> QED BY <3>1, <3>2, <3>4
  <2>2. Early(p)' = Plus(Early(p), e) /\ Late(p)' = Late(p)
    BY <1>9, <2>1 DEF Late, Early
  <2>3. Relisted(p)
    BY <1>1, <1>5, <1>6, <1>7, <1>9, <2>1, <2>2 DEF Relisted, SameLists
  <2>4. Entries(p)' = Plus(Entries(p), e) /\ \A f \in Late(p)' : f \notin Early(p)'
    BY <1>5, <2>2 DEF Plus, Entries, PoolSound
  <2>5. PoolSound(p)'
    BY <1>1, <1>3, <2>4, PoolEntered
  <2>6. StagesSound' /\ stage' \in [Cleanups -> {"new", "registered", "run"}]
    BY <1>3, <2>3, <2>4, StagesEntered
  <2>7. ListsSound'
    BY <2>3, <2>5, <2>6, RelistedSound
  <2> QED BY <1>1, <2>3, <2>7 DEF Relisted
<1> QED BY <1>8, <1>9

\* The lists of p without e, whose structure becomes a spare one, or not.
LEMMA PoolLeft ==
    ASSUME ListsSound, NEW p \in Pools, Holds(p), Exists(p)', NEW e \in Entries(p),
           Late(p)' = Minus(Late(p), e), Early(p)' = Minus(Early(p), e),
           Spare(p)' = Plus(Spare(p), e.at) \/ Spare(p)' = Spare(p)
    PROVE  PoolSound(p)' /\ Entries(p)' = Minus(Entries(p), e)
<1>1. PoolSound(p) /\ (\A f \in Entries(p) : f.at \in Spots) /\ Spare(p) \subseteq Spots
  BY ListsAre
<1>2. Entries(p)' = Minus(Entries(p), e)
  BY DEF Entries, Minus
<1>3. \A f \in Late(p)' : f \notin Early(p)'
  BY <1>1 DEF PoolSound, Minus
<1>4. \A f \in Entries(p)' : f \in Entries(p) /\ f.at # e.at
  BY <1>1, <1>2 DEF PoolSound, Minus
<1>5. \A f, g \in Entries(p)' : f.what = g.what \/ f.at = g.at => f = g
  BY <1>1, <1>4 DEF PoolSound
<1>6. \A x \in Spare(p)' : x \in Spare(p) \/ x = e.at
  BY DEF Plus
<1>7. \A f \in Entries(p)' : f.at \notin Spare(p)' /\ Within(p, f.at)'
  BY <1>1, <1>4, <1>6 DEF PoolSound, Holds
<1>8. \A x \in Spare(p)' : Within(p, x)'
  BY <1>1, <1>6 DEF PoolSound, Holds
<1> QED BY <1>2, <1>3, <1>5, <1>7, <1>8 DEF PoolSound

\* The elements of two lists.
LEMMA BothLists ==
    ASSUME NEW S, NEW s \in Seq(S), NEW r \in Seq(S)
    PROVE  ToSet(s \o r) = ToSet(s) \cup ToSet(r)
<1> DEFINE d == s \o r
<1>1. Len(s) \in Nat /\ Len(r) \in Nat
  BY LenProperties
<1>2. /\ d \in Seq(S) /\ Len(d) = Len(s) + Len(r)
      /\ \A i \in 1..Len(s) + Len(r) : d[i] = IF i <= Len(s) THEN s[i] ELSE r[i - Len(s)]
  BY ConcatProperties
<1> HIDE DEF d
<1>3. /\ \A x : x \in ToSet(d) <=> \E i \in 1..Len(d) : d[i] = x
      /\ \A x : x \in ToSet(s) <=> \E i \in 1..Len(s) : s[i] = x
      /\ \A x : x \in ToSet(r) <=> \E i \in 1..Len(r) : r[i] = x
  BY <1>2, InList
<1>4. ASSUME NEW i \in 1..Len(d) PROVE d[i] \in ToSet(s) \cup ToSet(r)
  <2>1. CASE i <= Len(s)
    <3>1. i \in 1..Len(s) /\ d[i] = s[i]
      BY <1>1, <1>2, <2>1
    <3> QED BY <1>3, <3>1
  <2>2. CASE ~(i <= Len(s))
    <3>1. i - Len(s) \in 1..Len(r) /\ d[i] = r[i - Len(s)]
      BY <1>1, <1>2, <2>2
    <3> QED BY <1>3, <3>1
  <2> QED BY <2>1, <2>2
<1>5. ASSUME NEW i \in 1..Len(s) PROVE s[i] \in ToSet(d)
  <2>1. i \in 1..Len(s) + Len(r) /\ i <= Len(s)
    BY <1>1
  <2>2. i \in 1..Len(d) /\ d[i] = s[i]
    BY <1>2, <2>1
  <2> QED BY <1>3, <2>2
<1>6. ASSUME NEW i \in 1..Len(r) PROVE r[i] \in ToSet(d)
  <2>1. i + Len(s) \in 1..Len(s) + Len(r) /\ ~(i + Len(s) <= Len(s)) /\ i + Len(s) - Len(s) = i
    BY <1>1
  <2>2. i + Len(s) \in 1..Len(d) /\ d[i + Len(s)] = r[i]
    BY <1>2, <2>1
  <2> QED BY <1>3, <2>2
<1>7. ToSet(d) = ToSet(s) \cup ToSet(r)
  BY <1>3, <1>4, <1>5, <1>6
<1> QED BY <1>7 DEF d

LEMMA ListsKill ==
    ASSUME NodesSound, ListsSound, NEW t, NEW p \in Pools, NEW c \in Cleanups, CleanupKill(t, p, c)
    PROVE  /\ NodesSound' /\ ListsSound' /\ \A q \in Pools : Exists(q)' <=> Exists(q)
           /\ \A q \in Pools : q # p => SameLists(q)
           /\ preCleanups[p] = <<>> => preCleanups'[p] = <<>>
<1>1. /\ Exists(p) /\ \E e \in ToSet(cleanups[p] \o preCleanups[p]) : e.what = c
      /\ cleanups' = [cleanups EXCEPT ![p] = Without(@, c)]
      /\ preCleanups' = [preCleanups EXCEPT ![p] = Without(@, c)]
      /\ spare' = [spare EXCEPT ![p] = <<StructureOf(p, c)>> \o @]
      /\ stage' = [stage EXCEPT ![c] = "new"]
      /\ UNCHANGED <<allocatorVars, nodeVars, self, making, deleted>>
  BY DEF CleanupKill, Uses, treeVars, threadVars
<1>2. NodesSound' /\ \A q \in Pools : In(q)' = In(q) /\ (Exists(q)' <=> Exists(q))
  BY <1>1, NodesFrame
<1>3. used' = used
  BY <1>1 DEF nodeVars
<1>4. \A q \in Pools : Holds(q)
  BY <1>2, <1>3, HoldsSame
<1>5. /\ Lists(cleanups[p], Entry, Late(p)) /\ Lists(preCleanups[p], Entry, Early(p))
      /\ Lists(spare[p], Spots, Spare(p)) /\ PoolSound(p) /\ \A f \in Entries(p) : f.at \in Spots
      /\ (preCleanups[p] = <<>> <=> Early(p) = {})
  BY ListsAre
<1>6. ToSet(cleanups[p] \o preCleanups[p]) = Entries(p)
  BY <1>5, BothLists DEF Lists, Late, Early, Entries
<1>7. PICK e \in Entries(p) : e = CHOOSE x \in ToSet(cleanups[p] \o preCleanups[p]) : x.what = c
  BY <1>1, <1>6
<1>8. e.what = c /\ StructureOf(p, c) = e.at
  BY <1>1, <1>7 DEF StructureOf
<1>9. \A f \in Entries(p) : f.what = c <=> f = e
  BY <1>5, <1>8 DEF PoolSound
<1>10. Lists(Without(cleanups[p], c), Entry, Minus(Late(p), e))
  <2>1. Lists(Without(cleanups[p], c), Entry, {f \in Late(p) : f.what # c})
    BY <1>5, <1>9, ListsWithout DEF Entries
  <2>2. {f \in Late(p) : f.what # c} = Minus(Late(p), e)
    BY <1>9 DEF Entries, Minus
  <2> QED BY <2>1, <2>2
<1>11. Lists(Without(preCleanups[p], c), Entry, Minus(Early(p), e))
  <2>1. Lists(Without(preCleanups[p], c), Entry, {f \in Early(p) : f.what # c})
    BY <1>5, <1>9, ListsWithout DEF Entries
  <2>2. {f \in Early(p) : f.what # c} = Minus(Early(p), e)
    BY <1>9 DEF Entries, Minus
  <2> QED BY <2>1, <2>2
<1>12. Lists(<<e.at>> \o spare[p], Spots, Plus(Spare(p), e.at))
  BY <1>5, ListsCons DEF PoolSound
<1>13. /\ DOMAIN cleanups = Pools /\ DOMAIN preCleanups = Pools /\ DOMAIN spare = Pools
       /\ stage \in [Cleanups -> {"new", "registered", "run"}]
  BY DEF ListsSound, ListsTyped
<1>14. /\ DOMAIN cleanups' = Pools /\ cleanups' = [q \in Pools |-> cleanups'[q]]
       /\ cleanups'[p] = Without(cleanups[p], c) /\ \A q \in Pools : q # p => cleanups'[q] = cleanups[q]
  BY <1>1, <1>13
<1>15. /\ DOMAIN preCleanups' = Pools /\ preCleanups' = [q \in Pools |-> preCleanups'[q]]
       /\ preCleanups'[p] = Without(preCleanups[p], c) /\ \A q \in Pools : q # p => preCleanups'[q] = preCleanups[q]
  BY <1>1, <1>13
<1>16. /\ DOMAIN spare' = Pools /\ spare' = [q \in Pools |-> spare'[q]]
       /\ spare'[p] = <<e.at>> \o spare[p] /\ \A q \in Pools : q # p => spare'[q] = spare[q]
  BY <1>1, <1>8, <1>13
<1>17. Late(p)' = Minus(Late(p), e) /\ Early(p)' = Minus(Early(p), e) /\ Spare(p)' = Plus(Spare(p), e.at)
  BY <1>10, <1>11, <1>12, <1>14, <1>15, <1>16 DEF Late, Early, Spare, Lists
<1>18. Relisted(p)
  BY <1>4, <1>10, <1>11, <1>12, <1>14, <1>15, <1>16, <1>17 DEF Relisted, SameLists
<1>19. PoolSound(p)' /\ Entries(p)' = Minus(Entries(p), e)
  BY <1>1, <1>2, <1>4, <1>17, PoolLeft
<1>20. StagesSound' /\ stage' \in [Cleanups -> {"new", "registered", "run"}]
  BY <1>1, <1>8, <1>18, <1>19, StagesLeft
<1>21. ListsSound'
  BY <1>18, <1>19, <1>20, RelistedSound
<1>22. preCleanups[p] = <<>> => preCleanups'[p] = <<>>
  <2>1. Early(p) = {} => Minus(Early(p), e) = {}
    BY DEF Minus
  <2> QED BY <1>5, <1>11, <1>15, <2>1, ListsIs
<1> QED BY <1>2, <1>18, <1>21, <1>22 DEF Relisted

\* The first of p's cleanups, or pre-cleanups, is run.
LEMMA ListsRun ==
    ASSUME NodesSound, ListsSound, NEW p \in Pools, Exists(p),
           UNCHANGED <<allocatorVars, nodeVars, self, spare, making, deleted>>,
           \/ /\ preCleanups[p] # <<>> /\ preCleanups' = [preCleanups EXCEPT ![p] = Tail(@)] /\ cleanups' = cleanups
              /\ stage' = [stage EXCEPT ![Head(preCleanups[p]).what] = "run"]
           \/ /\ cleanups[p] # <<>> /\ cleanups' = [cleanups EXCEPT ![p] = Tail(@)] /\ preCleanups' = preCleanups
              /\ stage' = [stage EXCEPT ![Head(cleanups[p]).what] = "run"]
    PROVE  /\ NodesSound' /\ ListsSound' /\ \A q \in Pools : Exists(q)' <=> Exists(q)
           /\ \A q \in Pools : q # p => SameLists(q)
<1>1. NodesSound' /\ \A q \in Pools : In(q)' = In(q) /\ (Exists(q)' <=> Exists(q))
  BY NodesFrame
<1>2. used' = used
  BY DEF nodeVars
<1>3. \A q \in Pools : Holds(q)
  BY <1>1, <1>2, HoldsSame
<1>4. /\ Lists(cleanups[p], Entry, Late(p)) /\ Lists(preCleanups[p], Entry, Early(p))
      /\ Lists(spare[p], Spots, Spare(p)) /\ PoolSound(p)
  BY ListsAre
<1>5. /\ DOMAIN cleanups = Pools /\ cleanups = [q \in Pools |-> cleanups[q]]
      /\ DOMAIN preCleanups = Pools /\ preCleanups = [q \in Pools |-> preCleanups[q]]
      /\ DOMAIN spare = Pools /\ spare = [q \in Pools |-> spare[q]]
  BY DEF ListsSound, ListsTyped
<1>6. Spare(p)' = Spare(p)
  BY DEF Spare
<1>7. CASE /\ preCleanups[p] # <<>> /\ preCleanups' = [preCleanups EXCEPT ![p] = Tail(@)] /\ cleanups' = cleanups
           /\ stage' = [stage EXCEPT ![Head(preCleanups[p]).what] = "run"]
  <2>1. PICK e : e = Head(preCleanups[p])
    OBVIOUS
  <2>2. Lists(Tail(preCleanups[p]), Entry, Minus(Early(p), e)) /\ e \in Early(p)
    BY <1>4, <1>7, <2>1, ListsTail
  <2>3. /\ DOMAIN preCleanups' = Pools /\ preCleanups' = [q \in Pools |-> preCleanups'[q]]
        /\ preCleanups'[p] = Tail(preCleanups[p]) /\ \A q \in Pools : q # p => preCleanups'[q] = preCleanups[q]
    BY <1>5, <1>7
  <2>4. Early(p)' = Minus(Early(p), e)
    BY <2>2, <2>3 DEF Early, Lists
  <2>5. Late(p)' = Late(p) /\ Late(p) = Minus(Late(p), e)
    BY <1>4, <1>7, <2>2 DEF Late, PoolSound, Minus
  <2>6. Relisted(p)
    BY <1>3, <1>4, <1>5, <1>6, <1>7, <2>2, <2>3, <2>4, <2>5 DEF Relisted, SameLists
  <2>7. e \in Entries(p)
    BY <2>2 DEF Entries
  <2>8. PoolSound(p)' /\ Entries(p)' = Minus(Entries(p), e)
    BY <1>1, <1>3, <1>6, <2>4, <2>5, <2>7, PoolLeft
  <2>9. StagesSound' /\ stage' \in [Cleanups -> {"new", "registered", "run"}]
    BY <1>7, <2>1, <2>6, <2>7, <2>8, StagesLeft
  <2>10. ListsSound'
    BY <2>6, <2>8, <2>9, RelistedSound
  <2> QED BY <1>1, <2>6, <2>10 DEF Relisted
<1>8. CASE /\ cleanups[p] # <<>> /\ cleanups' = [cleanups EXCEPT ![p] = Tail(@)] /\ preCleanups' = preCleanups
           /\ stage' = [stage EXCEPT ![Head(cleanups[p]).what] = "run"]
  <2>1. PICK e : e = Head(cleanups[p])
    OBVIOUS
  <2>2. Lists(Tail(cleanups[p]), Entry, Minus(Late(p), e)) /\ e \in Late(p)
    BY <1>4, <1>8, <2>1, ListsTail
  <2>3. /\ DOMAIN cleanups' = Pools /\ cleanups' = [q \in Pools |-> cleanups'[q]]
        /\ cleanups'[p] = Tail(cleanups[p]) /\ \A q \in Pools : q # p => cleanups'[q] = cleanups[q]
    BY <1>5, <1>8
  <2>4. Late(p)' = Minus(Late(p), e)
    BY <2>2, <2>3 DEF Late, Lists
  <2>5. Early(p)' = Early(p) /\ Early(p) = Minus(Early(p), e)
    BY <1>4, <1>8, <2>2 DEF Early, PoolSound, Minus
  <2>6. Relisted(p)
    BY <1>3, <1>4, <1>5, <1>6, <1>8, <2>2, <2>3, <2>4, <2>5 DEF Relisted, SameLists
  <2>7. e \in Entries(p)
    BY <2>2 DEF Entries
  <2>8. PoolSound(p)' /\ Entries(p)' = Minus(Entries(p), e)
    BY <1>1, <1>3, <1>6, <2>4, <2>5, <2>7, PoolLeft
  <2>9. StagesSound' /\ stage' \in [Cleanups -> {"new", "registered", "run"}]
    BY <1>8, <2>1, <2>6, <2>7, <2>8, StagesLeft
  <2>10. ListsSound'
    BY <2>6, <2>8, <2>9, RelistedSound
  <2> QED BY <1>1, <2>6, <2>10 DEF Relisted
<1> QED BY <1>7, <1>8

\* The lists of p are empty, and its memory may go.
LEMMA ListsEmptied ==
    ASSUME ListsSound, NEW p \in Pools, cleanups[p] = <<>>, preCleanups[p] = <<>>,
           spare' = [spare EXCEPT ![p] = <<>>], UNCHANGED <<cleanups, preCleanups, stage>>,
           \A q \in Pools : q # p => Holds(q)
    PROVE  ListsSound' /\ \A q \in Pools : spare[q] = <<>> => spare'[q] = <<>>
<1>1. /\ Lists(cleanups[p], Entry, Late(p)) /\ Lists(preCleanups[p], Entry, Early(p)) /\ PoolSound(p)
      /\ Late(p) = {} /\ Early(p) = {}
  BY ListsAre
<1>2. ListsTyped
  BY DEF ListsSound
<1>3. /\ DOMAIN spare' = Pools /\ spare' = [q \in Pools |-> spare'[q]]
      /\ spare'[p] = <<>> /\ \A q \in Pools : q # p => spare'[q] = spare[q]
  BY <1>2 DEF ListsTyped
<1>4. Late(p)' = {} /\ Early(p)' = {} /\ Entries(p)' = {} /\ Entries(p) = {}
  BY <1>1 DEF Late, Early, Entries
<1>5. Spare(p)' = {} /\ Lists(spare'[p], Spots, {})
  BY <1>3, ListsEmpty, StackEmpty DEF Spare
<1>6. Relisted(p)
  BY <1>1, <1>2, <1>3, <1>4, <1>5 DEF Relisted, ListsTyped, SameLists
<1>7. PoolSound(p)'
  BY <1>4, <1>5 DEF PoolSound
<1>8. \A q \in Pools : Entries(q)' = Entries(q)
  BY <1>4, <1>6, OthersEntries
<1>9. StagesSound' /\ stage' \in [Cleanups -> {"new", "registered", "run"}]
  BY <1>8 DEF ListsSound, ListsTyped, StagesSound
<1>10. ListsSound'
  BY <1>6, <1>7, <1>9, RelistedSound
<1> QED BY <1>3, <1>10

\* The memory of one pool changes, the others' stays.
LEMMA HoldsApart ==
    ASSUME NodesSound, NEW p \in Pools,
           \A q \in Pools : q # p => (Exists(q)' <=> Exists(q)) /\ In(q)' = In(q),
           \A q \in Pools : q # p => \A n \in In(q) : used'[n] = used[n]
    PROVE  \A q \in Pools : q # p => Holds(q)
BY DEF Holds, Within

LEMMA ListsInit == Init => ListsSound
<1> SUFFICES ASSUME Init PROVE ListsSound
  OBVIOUS
<1>1. /\ preCleanups = [p \in Pools |-> <<>>] /\ cleanups = preCleanups /\ spare = preCleanups
      /\ stage = [c \in Cleanups |-> "new"]
  BY DEF Init
<1>2. \A p \in Pools : cleanups[p] = <<>> /\ preCleanups[p] = <<>> /\ spare[p] = <<>>
  BY <1>1
<1>3. \A p \in Pools : Late(p) = {} /\ Early(p) = {} /\ Spare(p) = {} /\ Entries(p) = {}
  BY <1>2, StackEmpty DEF Late, Early, Spare, Entries
<1>4. \A S : Lists(<<>>, S, {})
  BY ListsEmpty
<1>5. ListsTyped
  BY <1>1, <1>2, <1>3, <1>4 DEF ListsTyped
<1>6. StagesSound
  BY <1>1, <1>3 DEF StagesSound
<1>7. \A p \in Pools : PoolSound(p)
  BY <1>3 DEF PoolSound
<1> QED BY <1>5, <1>6, <1>7 DEF ListsSound

-------------------------------------------------------------------------------
\* All of it, and that every step keeps it.

PoolInvariant == NodesSound /\ CallsSound /\ TreeSoundly /\ ListsSound

LEMMA CallerAlive ==
    ASSUME CallsSound, NEW t \in Threads, Calling(t)
    PROVE  ~deleted /\ making[t] = <<>>
<1>1. making[t] = <<>> /\ (frames[t] # <<>> \/ t \in users)
  BY CallingIs DEF InCall
<1> QED BY <1>1, Alive

LEMMA PallocKeeps ==
    ASSUME PoolInvariant, NEW t \in Threads, NEW p \in Pools, UsePalloc(t, p)
    PROVE  PoolInvariant'
<1>1. NodesSound /\ CallsSound /\ TreeSoundly /\ ListsSound
  BY DEF PoolInvariant
<1>2. Uses(t, p) /\ Exists(p) /\ UNCHANGED <<treeVars, listVars, threadVars>>
  BY DEF UsePalloc, Uses
<1>3. PICK size \in Sizes : \E n \in Nodes : Palloc(p, size, n)
  BY DEF UsePalloc
<1>4. PICK n \in Nodes : Palloc(p, size, n)
  BY <1>3
<1>5. size \in Nat
  BY PoolAssumption
<1>6. ~deleted
  BY <1>1, <1>2, CallerAlive DEF Uses
<1>7. UNCHANGED <<self, owner, parent, child, frames, making, users, deleted, preCleanups, cleanups, spare>>
  BY <1>2 DEF treeVars, threadVars, listVars
<1>8. NodesSound' /\ Grown(p, n, size)
  BY <1>1, <1>2, <1>4, <1>5, <1>6, <1>7, PallocSound
<1>9. ListsSound'
  BY <1>1, <1>2, <1>5, <1>8, HoldsGrown, ListsSame
<1>10. \A q \in Pools : Exists(q)' <=> Exists(q)
  BY <1>8 DEF Grown
<1>11. CallsSound' /\ TreeSoundly'
  BY <1>1, <1>2, <1>7, <1>10, CallsUse
<1> QED BY <1>8, <1>9, <1>11 DEF PoolInvariant

LEMMA RegisterKeeps ==
    ASSUME PoolInvariant, NEW t \in Threads, NEW p \in Pools, NEW c \in Cleanups,
           CleanupRegister(t, p, c) \/ PreCleanupRegister(t, p, c)
    PROVE  PoolInvariant'
<1>1. NodesSound /\ CallsSound /\ TreeSoundly /\ ListsSound
  BY DEF PoolInvariant
<1>2. /\ Uses(t, p) /\ Exists(p) /\ stage[c] = "new" /\ stage' = [stage EXCEPT ![c] = "registered"]
      /\ UNCHANGED <<self, owner, parent, child, frames, making, users, deleted>>
  BY DEF CleanupRegister, PreCleanupRegister, Uses, treeVars, threadVars
<1>3. \E a \in Places(p) :
        /\ Structure(p, a)
        /\ \/ cleanups' = Entered(cleanups, p, c, a) /\ preCleanups' = preCleanups
           \/ preCleanups' = Entered(preCleanups, p, c, a) /\ cleanups' = cleanups
  BY DEF CleanupRegister, PreCleanupRegister
<1>4. ~deleted
  BY <1>1, <1>2, CallerAlive DEF Uses
<1>5. PICK a \in Places(p) :
        /\ Structure(p, a)
        /\ \/ cleanups' = Entered(cleanups, p, c, a) /\ preCleanups' = preCleanups
           \/ preCleanups' = Entered(preCleanups, p, c, a) /\ cleanups' = cleanups
  BY <1>3
<1>6. /\ NodesSound' /\ ListsSound' /\ \A q \in Pools : Exists(q)' <=> Exists(q)
      /\ \A q \in Pools : q # p => SameLists(q)
  BY <1>1, <1>2, <1>4, <1>5, ListsRegister
<1>7. At(t, p) \subseteq {"pre"} \/ (preCleanups[p] = <<>> => preCleanups'[p] = <<>>)
  BY DEF CleanupRegister, PreCleanupRegister
<1>8. CallsSound' /\ TreeSoundly'
  BY <1>1, <1>2, <1>6, <1>7, CallsUse DEF SameLists
<1> QED BY <1>6, <1>8 DEF PoolInvariant

LEMMA KillKeeps ==
    ASSUME PoolInvariant, NEW t \in Threads, NEW p \in Pools, NEW c \in Cleanups, CleanupKill(t, p, c)
    PROVE  PoolInvariant'
<1>1. NodesSound /\ CallsSound /\ TreeSoundly /\ ListsSound
  BY DEF PoolInvariant
<1>2. /\ Uses(t, p)
      /\ UNCHANGED <<owner, parent, child, frames, making, users, deleted>>
  BY DEF CleanupKill, treeVars, threadVars
<1>3. /\ NodesSound' /\ ListsSound' /\ \A q \in Pools : Exists(q)' <=> Exists(q)
      /\ \A q \in Pools : q # p => SameLists(q)
      /\ preCleanups[p] = <<>> => preCleanups'[p] = <<>>
  BY <1>1, ListsKill
<1>4. CallsSound' /\ TreeSoundly'
  BY <1>1, <1>2, <1>3, CallsUse DEF SameLists
<1> QED BY <1>3, <1>4 DEF PoolInvariant

LEMMA MakeKeeps ==
    ASSUME PoolInvariant, NEW t \in Threads, NEW p \in Pools, MakeChild(t, p)
    PROVE  PoolInvariant'
<1>1. NodesSound /\ CallsSound /\ TreeSoundly /\ ListsSound
  BY DEF PoolInvariant
<1>2. /\ Calling(t) /\ Exists(p) /\ (p = Global \/ owner[p] = t) /\ At(t, p) \subseteq {"pre", "children"}
      /\ UNCHANGED <<nodeVars, treeVars, listVars, frames, users, deleted>>
  BY DEF MakeChild
<1>3. PICK n \in Nodes : Alloc(2 * Boundary - Header, n) /\ making' = [making EXCEPT ![t] = <<p, n>>]
  BY DEF MakeChild
<1>4. ~deleted /\ making[t] = <<>>
  BY <1>1, <1>2, CallerAlive
<1>5. UNCHANGED <<self, owner, parent, child, preCleanups, cleanups, spare, used>>
  BY <1>2 DEF treeVars, listVars, nodeVars
<1>6. NodesSound' /\ \A q \in Pools : In(q)' = In(q) /\ (Exists(q)' <=> Exists(q))
  BY <1>1, <1>2, <1>3, <1>4, <1>5, HandFilled
<1>7. ListsSound'
  BY <1>1, <1>2, <1>5, <1>6, HoldsSame, ListsSame
<1>8. DOMAIN making = Threads
  BY <1>1 DEF NodesSound, HandsApart
<1>9. CallsSound' /\ TreeSoundly'
  BY <1>1, <1>2, <1>3, <1>5, <1>6, <1>8, CallsMake
<1> QED BY <1>6, <1>7, <1>9 DEF PoolInvariant

LEMMA LinkKeeps ==
    ASSUME PoolInvariant, NEW t \in Threads, NEW q \in Pools, LinkChild(t, q)
    PROVE  PoolInvariant'
<1>1. NodesSound /\ CallsSound /\ TreeSoundly /\ ListsSound
  BY DEF PoolInvariant
<1>2. PICK p : p = making[t][1]
  OBVIOUS
<1>3. PICK n : n = making[t][2]
  OBVIOUS
<1>4. /\ making[t] # <<>> /\ ~Exists(q) /\ NewPool(q, n)
      /\ parent' = [parent EXCEPT ![q] = p]
      /\ child' = [child EXCEPT ![p] = <<q>> \o child[p]]
      /\ owner' = [owner EXCEPT ![q] = t]
      /\ making' = [making EXCEPT ![t] = <<>>]
      /\ UNCHANGED <<allocatorVars, listVars, frames, users, deleted>>
  BY <1>2, <1>3 DEF LinkChild
<1>5. UNCHANGED <<preCleanups, cleanups, spare>>
  BY <1>4 DEF listVars
<1>6. /\ NodesSound' /\ Exists(q)' /\ \A r \in Pools : r # q => (Exists(r)' <=> Exists(r)) /\ In(r)' = In(r)
  BY <1>1, <1>3, <1>4, LinkSound
<1>7. ListsSound'
  <2>1. In(q) = {}
    BY <1>1, <1>4, RingIs DEF NodesSound
  <2>2. ASSUME NEW r \in Pools, NEW m \in In(r) PROVE used'[m] = used[m]
    <3>1. m \in Nodes /\ m # n
      BY <1>1, <1>3, <1>4, RingIs DEF NodesSound, HandsApart
    <3>2. m \notin In(q)
      BY <2>1
    <3>3. used' = [Unused(q) EXCEPT ![n] = Header + PoolSize]
      BY <1>4 DEF NewPool
    <3>4. Unused(q)[m] = used[m] /\ Unused(q) = [x \in Nodes |-> Unused(q)[x]]
      BY <3>1, <3>2 DEF Unused, In
    <3> QED BY <3>1, <3>3, <3>4
  <2>3. \A r \in Pools : r # q => Holds(r)
    BY <1>1, <1>6, <2>2, HoldsApart
  <2>4. Holds(q)
    BY <1>4, <2>1 DEF Holds, Within
  <2> QED BY <1>1, <1>4, <2>3, <2>4, ListsSame
<1>8. DOMAIN making = Threads
  BY <1>1 DEF NodesSound, HandsApart
<1>9. CallsSound' /\ TreeSoundly'
  BY <1>1, <1>2, <1>4, <1>5, <1>6, <1>8, CallsLink
<1> QED BY <1>6, <1>7, <1>9 DEF PoolInvariant

\* Nothing but the calls has changed, and the tree.
LEMMA NodesAndLists ==
    ASSUME PoolInvariant, UNCHANGED <<allocatorVars, nodeVars, self, making, deleted>>, UNCHANGED listVars
    PROVE  NodesSound' /\ ListsSound' /\ \A q \in Pools : Exists(q)' <=> Exists(q)
<1>1. NodesSound /\ ListsSound
  BY DEF PoolInvariant
<1>2. NodesSound' /\ \A q \in Pools : In(q)' = In(q) /\ (Exists(q)' <=> Exists(q))
  BY <1>1, NodesFrame
<1>3. used' = used
  BY DEF nodeVars
<1>4. ListsSound'
  BY <1>1, <1>2, <1>3, HoldsSame, ListsSame
<1> QED BY <1>2, <1>4

LEMMA BeginKeeps ==
    ASSUME PoolInvariant, NEW t \in Threads, NEW p \in Pools, NEW clear \in BOOLEAN,
           ClearOrDestroy(t, p, clear)
    PROVE  PoolInvariant'
<1>1. UNCHANGED <<allocatorVars, nodeVars, self, making, deleted>> /\ UNCHANGED listVars
  BY DEF ClearOrDestroy, treeVars
<1>2. NodesSound' /\ ListsSound' /\ \A q \in Pools : Exists(q)' <=> Exists(q)
  BY <1>1, NodesAndLists
<1>3. CallsSound' /\ TreeSoundly'
  BY <1>2, CallsBegin DEF PoolInvariant
<1> QED BY <1>2, <1>3 DEF PoolInvariant

LEMMA ReturnKeeps ==
    ASSUME PoolInvariant, NEW t \in Threads, Return(t)
    PROVE  PoolInvariant'
<1>1. UNCHANGED <<allocatorVars, nodeVars, self, making, deleted>> /\ UNCHANGED listVars
  BY DEF Return, treeVars
<1>2. NodesSound' /\ ListsSound' /\ \A q \in Pools : Exists(q)' <=> Exists(q)
  BY <1>1, NodesAndLists
<1>3. CallsSound' /\ TreeSoundly'
  BY <1>2, CallsReturn DEF PoolInvariant
<1> QED BY <1>2, <1>3 DEF PoolInvariant

LEMMA DestroyKeeps ==
    ASSUME PoolInvariant, NEW t \in Threads, DestroyChild(t)
    PROVE  PoolInvariant'
<1>1. UNCHANGED <<allocatorVars, nodeVars, self, making, deleted>> /\ UNCHANGED listVars
  BY DEF DestroyChild, treeVars
<1>2. NodesSound' /\ ListsSound' /\ \A q \in Pools : Exists(q)' <=> Exists(q)
  BY <1>1, NodesAndLists
<1>3. CallsSound' /\ TreeSoundly'
  BY <1>2, CallsDestroyChild DEF PoolInvariant
<1> QED BY <1>2, <1>3 DEF PoolInvariant

LEMMA TerminateKeeps ==
    ASSUME PoolInvariant, NEW t \in Threads, Terminate(t)
    PROVE  PoolInvariant'
<1>1. UNCHANGED <<allocatorVars, nodeVars, self, making, deleted>> /\ UNCHANGED listVars
  BY DEF Terminate, treeVars
<1>2. NodesSound' /\ ListsSound' /\ \A q \in Pools : Exists(q)' <=> Exists(q)
  BY <1>1, NodesAndLists
<1>3. CallsSound' /\ TreeSoundly'
  BY <1>2, CallsTerminate DEF PoolInvariant
<1> QED BY <1>2, <1>3 DEF PoolInvariant

LEMMA RunKeeps ==
    ASSUME PoolInvariant, NEW t \in Threads, RunPreCleanup(t) \/ RunCleanup(t)
    PROVE  PoolInvariant'
<1>1. NodesSound /\ CallsSound /\ TreeSoundly /\ ListsSound
  BY DEF PoolInvariant
<1>2. PICK h : h = Head(frames[t])
  OBVIOUS
<1>3. PICK p : p = h.pool
  OBVIOUS
<1>4. UNCHANGED <<allocatorVars, nodeVars, self, owner, parent, child, spare, making, users, deleted>>
  BY DEF RunPreCleanup, RunCleanup, treeVars
<1>5. CASE RunPreCleanup(t)
  <2>1. /\ Reached(t, "pre") /\ preCleanups' = [preCleanups EXCEPT ![p] = Tail(@)] /\ cleanups' = cleanups
        /\ stage' = [stage EXCEPT ![Head(preCleanups[p]).what] = "run"]
        /\ frames' = [frames EXCEPT ![t][1].calling = TRUE, ![t][1].at = "pre"]
    BY <1>2, <1>3, <1>5 DEF RunPreCleanup, Run
  <2>2. p \in Pools /\ Exists(p) /\ preCleanups[p] # <<>>
    BY <1>1, <1>2, <1>3, <2>1, ReachedIs
  <2>3. /\ NodesSound' /\ ListsSound' /\ \A q \in Pools : Exists(q)' <=> Exists(q)
        /\ \A q \in Pools : q # p => SameLists(q)
    BY <1>1, <1>4, <2>1, <2>2, ListsRun
  <2>4. \A q \in Pools : q # h.pool => preCleanups'[q] = preCleanups[q] /\ cleanups'[q] = cleanups[q]
    BY <1>3, <2>3 DEF SameLists
  <2>5. CallsSound' /\ TreeSoundly'
    BY <1>1, <1>2, <1>4, <2>1, <2>3, <2>4, CallsRun
  <2> QED BY <2>3, <2>5 DEF PoolInvariant
<1>6. CASE RunCleanup(t)
  <2>1. /\ Reached(t, "cleanups") /\ cleanups' = [cleanups EXCEPT ![p] = Tail(@)] /\ preCleanups' = preCleanups
        /\ stage' = [stage EXCEPT ![Head(cleanups[p]).what] = "run"]
        /\ frames' = [frames EXCEPT ![t][1].calling = TRUE, ![t][1].at = "cleanups"]
    BY <1>2, <1>3, <1>6 DEF RunCleanup, Run
  <2>2. p \in Pools /\ Exists(p) /\ cleanups[p] # <<>>
    BY <1>1, <1>2, <1>3, <2>1, ReachedIs
  <2>3. /\ NodesSound' /\ ListsSound' /\ \A q \in Pools : Exists(q)' <=> Exists(q)
        /\ \A q \in Pools : q # p => SameLists(q)
    BY <1>1, <1>4, <2>1, <2>2, ListsRun
  <2>4. \A q \in Pools : q # h.pool => preCleanups'[q] = preCleanups[q] /\ cleanups'[q] = cleanups[q]
    BY <1>3, <2>3 DEF SameLists
  <2>5. CallsSound' /\ TreeSoundly'
    BY <1>1, <1>2, <1>4, <2>1, <2>3, <2>4, CallsRun
  <2> QED BY <2>3, <2>5 DEF PoolInvariant
<1> QED BY <1>5, <1>6

LEMMA UnlinkKeeps ==
    ASSUME PoolInvariant, NEW t \in Threads, Unlink(t)
    PROVE  PoolInvariant'
<1>1. NodesSound /\ CallsSound /\ TreeSoundly /\ ListsSound
  BY DEF PoolInvariant
<1>2. PICK h : h = Head(frames[t])
  OBVIOUS
<1>3. PICK p : p = h.pool
  OBVIOUS
<1>4. /\ Reached(t, "end") /\ spare' = [spare EXCEPT ![p] = <<>>]
      /\ UNCHANGED <<allocatorVars, nodeVars, self, making, deleted>>
      /\ UNCHANGED <<cleanups, preCleanups, stage>>
  BY <1>2, <1>3 DEF Unlink
<1>5. p \in Pools /\ cleanups[p] = <<>> /\ preCleanups[p] = <<>>
  BY <1>1, <1>2, <1>3, <1>4, ReachedIs
<1>6. NodesSound' /\ \A q \in Pools : In(q)' = In(q) /\ (Exists(q)' <=> Exists(q))
  BY <1>1, <1>4, NodesFrame
<1>7. used' = used
  BY <1>4 DEF nodeVars
<1>8. \A q \in Pools : Holds(q)
  BY <1>6, <1>7, HoldsSame
<1>9. ListsSound' /\ \A q \in Pools : spare[q] = <<>> => spare'[q] = <<>>
  BY <1>1, <1>4, <1>5, <1>8, ListsEmptied
<1>10. spare'[h.pool] = <<>>
  <2>1. DOMAIN spare = Pools
    BY <1>1 DEF ListsSound, ListsTyped
  <2> QED BY <1>3, <1>4, <1>5, <2>1
<1>11. CallsSound' /\ TreeSoundly'
  BY <1>1, <1>2, <1>6, <1>9, <1>10, CallsUnlink
<1> QED BY <1>6, <1>9, <1>11 DEF PoolInvariant

LEMMA FreeKeeps ==
    ASSUME PoolInvariant, NEW t \in Threads, FreeNodes(t)
    PROVE  PoolInvariant'
<1>1. NodesSound /\ CallsSound /\ TreeSoundly /\ ListsSound
  BY DEF PoolInvariant
<1>2. PICK h : h = Head(frames[t])
  OBVIOUS
<1>3. PICK p : p = h.pool
  OBVIOUS
<1>4. /\ Reached(t, "free") /\ Free(FromSelf(p))
      /\ ring' = [ring EXCEPT ![p] = <<>>] /\ used' = Unused(p)
      /\ freeIndex' = [n \in Nodes |-> IF n \in ToSet(ring[p]) THEN 0 ELSE freeIndex[n]]
      /\ self' = [self EXCEPT ![p] = NULL] /\ UNCHANGED <<making, deleted>>
      /\ UNCHANGED <<cleanups, preCleanups, spare, stage>>
  BY <1>2, <1>3 DEF FreeNodes, listVars
<1>5. /\ p \in Pools /\ Exists(p) /\ frames[t] # <<>>
      /\ FrameOK(t, h) /\ h.at = "unlinked"
  BY <1>1, <1>2, <1>3, <1>4, ReachedIs
<1>6. cleanups[p] = <<>> /\ preCleanups[p] = <<>> /\ spare[p] = <<>>
  BY <1>3, <1>5 DEF FrameOK
<1>7. ~deleted
  BY <1>1, <1>5, Alive
<1>8. /\ NodesSound' /\ ~Exists(p)'
      /\ \A q \in Pools : q # p => (Exists(q)' <=> Exists(q)) /\ In(q)' = In(q)
  BY <1>1, <1>4, <1>5, <1>7, FreeNodesSound
<1>9. ASSUME NEW q \in Pools, q # p, NEW n \in In(q) PROVE used'[n] = used[n]
  <2>1. n \in Nodes /\ n \notin In(p)
    BY <1>1, <1>5, <1>9, RingIs DEF NodesSound, RingsApart
  <2> QED BY <1>4, <2>1 DEF Unused, In
<1>10. \A q \in Pools : q # p => Holds(q)
  BY <1>1, <1>5, <1>8, <1>9, HoldsApart
<1>11. spare' = [spare EXCEPT ![p] = <<>>]
  <2>1. spare = [q \in Pools |-> spare[q]]
    BY <1>1 DEF ListsSound, ListsTyped
  <2>2. [spare EXCEPT ![p] = <<>>] = spare
    BY <1>6, <2>1
  <2> QED BY <1>4, <2>2
<1>12. ListsSound'
  BY <1>1, <1>4, <1>5, <1>6, <1>10, <1>11, ListsEmptied
<1>13. CallsSound' /\ TreeSoundly'
  BY <1>1, <1>2, <1>3, <1>8, CallsFree
<1> QED BY <1>8, <1>12, <1>13 DEF PoolInvariant

LEMMA ResetKeeps ==
    ASSUME PoolInvariant, NEW t \in Threads, Reset(t)
    PROVE  PoolInvariant'
<1>1. NodesSound /\ CallsSound /\ TreeSoundly /\ ListsSound
  BY DEF PoolInvariant
<1>2. PICK h : h = Head(frames[t])
  OBVIOUS
<1>3. PICK p : p = h.pool
  OBVIOUS
<1>4. /\ Reached(t, "end") /\ Free(Tail(FromSelf(p))) /\ NewPool(p, self[p])
      /\ spare' = [spare EXCEPT ![p] = <<>>]
      /\ UNCHANGED <<making, deleted>> /\ UNCHANGED <<cleanups, preCleanups, stage>>
  BY <1>2, <1>3 DEF Reset
<1>5. p \in Pools /\ Exists(p) /\ frames[t] # <<>> /\ cleanups[p] = <<>> /\ preCleanups[p] = <<>>
  BY <1>1, <1>2, <1>3, <1>4, ReachedIs
<1>6. ~deleted
  BY <1>1, <1>5, Alive
<1>7. /\ NodesSound' /\ Exists(p)'
      /\ \A q \in Pools : q # p => (Exists(q)' <=> Exists(q)) /\ In(q)' = In(q)
      /\ \A n \in Nodes : n \notin In(p) => used'[n] = used[n]
  BY <1>1, <1>4, <1>5, <1>6, ResetSound
<1>8. ASSUME NEW q \in Pools, q # p, NEW n \in In(q) PROVE used'[n] = used[n]
  <2>1. n \in Nodes /\ n \notin In(p)
    BY <1>1, <1>5, <1>8, RingIs DEF NodesSound, RingsApart
  <2> QED BY <1>7, <2>1
<1>9. \A q \in Pools : q # p => Holds(q)
  BY <1>1, <1>5, <1>7, <1>8, HoldsApart
<1>10. ListsSound' /\ \A q \in Pools : spare[q] = <<>> => spare'[q] = <<>>
  BY <1>1, <1>4, <1>5, <1>9, ListsEmptied
<1>11. \A q \in Pools : Exists(q)' <=> Exists(q)
  BY <1>5, <1>7
<1>12. CallsSound' /\ TreeSoundly'
  BY <1>1, <1>10, <1>11, CallsReset
<1> QED BY <1>7, <1>10, <1>12 DEF PoolInvariant

LEMMA DeleteKeeps ==
    ASSUME PoolInvariant, DeleteAllocator
    PROVE  PoolInvariant'
<1>1. NodesSound /\ CallsSound /\ TreeSoundly /\ ListsSound
  BY DEF PoolInvariant
<1>2. /\ ~Exists(Global) /\ FreeAll /\ deleted' = TRUE
      /\ UNCHANGED <<nodeVars, treeVars, frames, making, users>> /\ UNCHANGED listVars
      /\ UNCHANGED <<nodeVars, self, making>> /\ used' = used
      /\ UNCHANGED <<treeVars, listVars, frames, making, users>>
  BY DEF DeleteAllocator, treeVars, nodeVars
<1>3. \A q \in Pools : ~Exists(q)
  BY <1>1, <1>2 DEF CallsSound, UsersSound
<1>4. \A t \in Threads : making[t] = <<>>
  BY <1>1, <1>3 DEF CallsSound, MakingSound, Maker
<1>5. NodesSound' /\ heap' = {} /\ \A q \in Pools : In(q)' = In(q) /\ (Exists(q)' <=> Exists(q))
  BY <1>1, <1>2, <1>3, <1>4, FreedAll
<1>6. ListsSound'
  BY <1>1, <1>2, <1>5, HoldsSame, ListsSame
<1>7. CallsSound' /\ TreeSoundly'
  BY <1>1, <1>2, <1>5, CallsDelete
<1> QED BY <1>5, <1>6, <1>7 DEF PoolInvariant

LEMMA StutterKeeps ==
    ASSUME PoolInvariant, UNCHANGED vars
    PROVE  PoolInvariant'
<1>1. /\ UNCHANGED <<allocatorVars, nodeVars, self, making, deleted>> /\ UNCHANGED listVars
      /\ UNCHANGED <<owner, parent, child, frames, making, users, deleted>>
      /\ UNCHANGED <<preCleanups, cleanups, spare>> /\ heap' = heap
  BY DEF vars, treeVars, threadVars, listVars, allocatorVars
<1>2. NodesSound' /\ ListsSound' /\ \A q \in Pools : Exists(q)' <=> Exists(q)
  BY <1>1, NodesAndLists
<1>3. TreeSoundly'
  BY <1>1, <1>2, TreeFrame, UnlinkedFrame DEF PoolInvariant
<1>4. CallsSound'
  <2>1. FramesSound'
    <3>1. ASSUME NEW t \in Threads, NEW f \in Calls(t) PROVE FrameOK(t, f)'
      <4>1. FrameOK(t, f) /\ f.pool \in Pools
        BY <3>1, CallsIs DEF PoolInvariant, CallsSound
      <4>2. Exists(f.pool)'
        BY <1>2, <4>1 DEF FrameOK
      <4>3. /\ owner' = owner /\ users' = users /\ preCleanups' = preCleanups
            /\ child' = child /\ cleanups' = cleanups /\ spare' = spare
        BY <1>1
      <4> QED BY <4>1, <4>2, <4>3, FrameKept
    <3>2. FramesTyped' /\ (\A t \in Threads : Stacked(frames[t], parent)') /\ \A t : Calls(t)' = Calls(t)
      BY <1>1 DEF PoolInvariant, CallsSound, FramesSound, FramesTyped, Calls, Stacked, Ordered, AboveIn, UpwardIn
    <3> QED BY <3>1, <3>2 DEF FramesSound
  <2>2. UsersSound'
    <3>1. Exists(Global)' <=> Exists(Global)
      BY <1>2, PoolAssumption
    <3> QED BY <1>1, <1>2, <3>1 DEF PoolInvariant, CallsSound, UsersSound
  <2>3. MakingSound'
    <3>1. ASSUME NEW t \in Threads, making'[t] # <<>> PROVE Maker(t, making[t][1])'
      BY <1>1, <1>2, <3>1 DEF PoolInvariant, CallsSound, MakingSound, Maker, InCall, Calls
    <3> QED BY <3>1 DEF MakingSound
  <2> QED BY <2>1, <2>2, <2>3 DEF CallsSound
<1> QED BY <1>2, <1>3, <1>4 DEF PoolInvariant

LEMMA PoolStep == PoolInvariant /\ [Next]_vars => PoolInvariant'
<1> SUFFICES ASSUME PoolInvariant, [Next]_vars PROVE PoolInvariant'
  OBVIOUS
<1>1. ASSUME NEW t \in Threads, Use(t) PROVE PoolInvariant'
  <2>1. PICK p \in Pools :
            \/ UsePalloc(t, p) \/ MakeChild(t, p) \/ LinkChild(t, p)
            \/ \E c \in Cleanups : \/ CleanupRegister(t, p, c) \/ PreCleanupRegister(t, p, c)
                                   \/ CleanupKill(t, p, c)
            \/ \E clear \in BOOLEAN : ClearOrDestroy(t, p, clear)
    BY <1>1 DEF Use
  <2> QED BY <2>1, PallocKeeps, MakeKeeps, LinkKeeps, RegisterKeeps, KillKeeps, BeginKeeps
<1>2. ASSUME NEW t \in Threads, Continue(t) PROVE PoolInvariant'
  BY <1>2, RunKeeps, DestroyKeeps, ReturnKeeps, UnlinkKeeps, FreeKeeps, ResetKeeps DEF Continue
<1>3. ASSUME NEW t \in Threads, Terminate(t) PROVE PoolInvariant'
  BY <1>3, TerminateKeeps
<1>4. ASSUME DeleteAllocator PROVE PoolInvariant'
  BY <1>4, DeleteKeeps
<1>5. ASSUME UNCHANGED vars PROVE PoolInvariant'
  BY <1>5, StutterKeeps
<1> QED BY <1>1, <1>2, <1>3, <1>4, <1>5 DEF Next

LEMMA PoolStart == Init => PoolInvariant
BY NodesInit, CallsInit, ListsInit DEF PoolInvariant

\* PoolInvariant holds in every state of every behaviour.
LEMMA PoolAlways == Spec => []PoolInvariant
BY PoolStart, PoolStep, PTL DEF Spec

-------------------------------------------------------------------------------
\* What the properties say, of the invariant.

LEMMA SoundTypes ==
    ASSUME PoolInvariant
    PROVE  TypeOK
<1>1. /\ heap \subseteq Nodes /\ last \in 0..MaxIndex - 1
      /\ current \in 0..max /\ allocated \in Nat
      /\ \A n \in heap : used[n] <= Capacity(n)
      /\ ring \in [Pools -> Seq(heap)]
  BY TypesFromSound DEF PoolInvariant
<1>2. stage \in [Cleanups -> {"new", "registered", "run"}]
  BY DEF PoolInvariant, ListsSound, ListsTyped
<1>3. users \subseteq Threads /\ DOMAIN frames = Threads
  BY DEF PoolInvariant, CallsSound, UsersSound, FramesSound, FramesTyped
<1> QED BY <1>1, <1>2, <1>3 DEF TypeOK

LEMMA SoundTree ==
    ASSUME PoolInvariant
    PROVE  TreeConsistent
<1>1. CallsSound /\ TreeSoundly
  BY DEF PoolInvariant
<1> SUFFICES ASSUME NEW p \in Pools
             PROVE  /\ IsInjective(child[p])
                    /\ \A q \in ToSet(child[p]) : Exists(p) /\ Exists(q) /\ parent[q] = p
                    /\ Exists(p) /\ p # Global =>
                        /\ Exists(parent[p])
                        /\ \/ p \in ToSet(child[parent[p]])
                           \/ \E t \in DOMAIN frames : \E k \in DOMAIN frames[t] :
                                frames[t][k].pool = p /\ frames[t][k].at = "unlinked"
  BY DEF TreeConsistent
<1>2. IsInjective(child[p])
  <2>1. Lists(child[p], Pools, Kids(p))
    BY <1>1 DEF TreeSoundly, TreeTyped
  <2> QED BY <2>1, InjectiveIs DEF Lists, Distinct
<1>3. ASSUME NEW q \in ToSet(child[p]) PROVE Exists(p) /\ Exists(q) /\ parent[q] = p
  <2>1. q \in Kids(p)
    BY <1>3 DEF Kids
  <2>2. parent[q] = p /\ Exists(q)
    BY <1>1, <2>1, KidIs
  <2>3. Exists(p)
    BY <1>1, <2>1, NoKids
  <2> QED BY <2>2, <2>3
<1>4. ASSUME Exists(p), p # Global
      PROVE  /\ Exists(parent[p])
             /\ \/ p \in ToSet(child[parent[p]])
                \/ \E t \in DOMAIN frames : \E k \in DOMAIN frames[t] :
                     frames[t][k].pool = p /\ frames[t][k].at = "unlinked"
  <2>1. ChildOf(p, parent[p])
    BY <1>1, <1>4 DEF TreeSoundly, ParentsSound
  <2>2. Exists(parent[p]) /\ (p \in Kids(parent[p]) \/ Unlinked(p))
    BY <2>1 DEF ChildOf
  <2>3. CASE Unlinked(p)
    <3>1. PICK t \in Threads : \E f \in Calls(t) : f.pool = p /\ f.at = "unlinked"
      BY <2>3 DEF Unlinked
    <3>2. PICK f \in Calls(t) : f.pool = p /\ f.at = "unlinked"
      BY <3>1
    <3>3. frames[t] \in Seq(Frame) /\ DOMAIN frames = Threads
      BY <1>1 DEF CallsSound, FramesSound, FramesTyped
    <3>4. PICK k \in 1..Len(frames[t]) : frames[t][k] = f
      BY <3>3, InList DEF Calls
    <3>5. k \in DOMAIN frames[t]
      BY <3>3, <3>4, LenProperties
    <3> QED BY <2>2, <3>2, <3>3, <3>4, <3>5
  <2>4. CASE p \in Kids(parent[p])
    BY <2>2, <2>4 DEF Kids
  <2> QED BY <2>2, <2>3, <2>4
<1> QED BY <1>2, <1>3, <1>4

LEMMA SoundEnd ==
    ASSUME PoolInvariant
    PROVE  TerminatedClean
<1> SUFFICES ASSUME deleted
             PROVE  /\ heap = {} /\ allocated = 0
                    /\ \A c \in DOMAIN stage : stage[c] # "registered"
                    /\ \A p \in Pools : ~Exists(p)
  BY DEF TerminatedClean
<1>1. heap = {} /\ \A p \in Pools : ~Exists(p)
  BY DEF PoolInvariant, CallsSound, UsersSound
<1>2. allocated = 0
  <2>1. allocated = PagesIn(index, {})
    BY <1>1 DEF PoolInvariant, NodesSound, AllocatorSound, AllocatorTyped
  <2>2. Sheets(index, {}) = {}
    BY SheetIs
  <2> QED BY <2>1, <2>2, FS_EmptySet DEF PagesIn
<1>3. ASSUME NEW c \in DOMAIN stage, stage[c] = "registered" PROVE FALSE
  <2>1. c \in Cleanups
    BY <1>3 DEF PoolInvariant, ListsSound, ListsTyped
  <2>2. PICK p \in Pools : \E e \in Entries(p) : e.what = c
    BY <1>3, <2>1 DEF PoolInvariant, ListsSound, StagesSound
  <2>3. PoolSound(p)
    BY DEF PoolInvariant, ListsSound
  <2>4. Entries(p) = {}
    BY <1>1, <2>3 DEF PoolSound
  <2> QED BY <2>2, <2>4
<1> QED BY <1>1, <1>2, <1>3

LEMMA ListsConcat ==
    ASSUME NEW s, NEW r, NEW S, NEW T, NEW U, Lists(s, S, T), Lists(r, S, U), \A x \in T : x \notin U
    PROVE  Lists(s \o r, S, T \cup U)
<1> DEFINE c == s \o r
           m == Len(s)
<1>1. /\ s \in Seq(S) /\ r \in Seq(S) /\ m \in Nat /\ Len(r) \in Nat
      /\ \A i \in 1..m : s[i] \in T /\ \A j \in 1..m : s[i] = s[j] => i = j
      /\ \A i \in 1..Len(r) : r[i] \in U /\ \A j \in 1..Len(r) : r[i] = r[j] => i = j
  BY ListsIs DEF Lists, Distinct
<1>2. /\ c \in Seq(S) /\ Len(c) = m + Len(r)
      /\ \A i \in 1..m + Len(r) : c[i] = IF i <= m THEN s[i] ELSE r[i - m]
  BY <1>1, ConcatProperties
<1> HIDE DEF c, m
<1>3. ASSUME NEW i \in 1..Len(c), NEW j \in 1..Len(c), c[i] = c[j] PROVE i = j
  <2>1. CASE i <= m /\ j <= m
    <3>1. i \in 1..m /\ j \in 1..m
      BY <1>1, <2>1
    <3> QED BY <1>1, <1>2, <1>3, <2>1, <3>1
  <2>2. CASE i <= m /\ ~(j <= m)
    <3>1. i \in 1..m /\ j - m \in 1..Len(r)
      BY <1>1, <1>2, <2>2
    <3>2. c[i] \in T /\ c[j] \in U
      BY <1>1, <1>2, <2>2, <3>1
    <3> QED BY <1>3, <3>2
  <2>3. CASE ~(i <= m) /\ j <= m
    <3>1. j \in 1..m /\ i - m \in 1..Len(r)
      BY <1>1, <1>2, <2>3
    <3>2. c[j] \in T /\ c[i] \in U
      BY <1>1, <1>2, <2>3, <3>1
    <3> QED BY <1>3, <3>2
  <2>4. CASE ~(i <= m) /\ ~(j <= m)
    <3>1. i - m \in 1..Len(r) /\ j - m \in 1..Len(r)
      BY <1>1, <1>2, <2>4
    <3>2. c[i] = r[i - m] /\ c[j] = r[j - m]
      BY <1>2, <2>4
    <3>3. i - m = j - m
      BY <1>1, <1>3, <3>1, <3>2
    <3> QED BY <1>1, <3>3
  <2> QED BY <2>1, <2>2, <2>3, <2>4
<1>4. ToSet(c) = T \cup U
  BY <1>1, BothLists DEF c, Lists
<1> QED BY <1>2, <1>3, <1>4 DEF Lists, Distinct, c

\* The structures that a list of entries lies in.
Spot(e) == e.at
Lying(T) == {Spot(e) : e \in T}

LEMMA ListsLying ==
    ASSUME NEW s, NEW T, Lists(s, Entry, T), \A e, f \in T : e.at = f.at => e = f
    PROVE  Lists([i \in DOMAIN s |-> s[i].at], Spots, Lying(T))
<1> DEFINE r == [i \in DOMAIN s |-> s[i].at]
<1>1. /\ s \in Seq(Entry) /\ Len(s) \in Nat /\ DOMAIN s = 1..Len(s)
      /\ \A i \in 1..Len(s) : s[i] \in T /\ s[i] \in Entry /\ \A j \in 1..Len(s) : s[i] = s[j] => i = j
      /\ \A x \in T : \E i \in 1..Len(s) : s[i] = x
  BY ListsIs, LenProperties DEF Lists, Distinct
<1>2. r \in [1..Len(s) -> Spots] /\ \A i \in 1..Len(s) : r[i] = Spot(s[i]) /\ r[i] = s[i].at
  BY <1>1 DEF Entry, Spot
<1> HIDE DEF r
<1>3. r \in Seq(Spots) /\ Len(r) = Len(s)
  <2>1. r \in Seq(Spots)
    BY <1>1, <1>2, SeqDef
  <2> QED BY <1>1, <1>2, <2>1, LenProperties
<1>4. ASSUME NEW i \in 1..Len(r), NEW j \in 1..Len(r), r[i] = r[j] PROVE i = j
  BY <1>1, <1>2, <1>3, <1>4
<1>5. ASSUME NEW x PROVE x \in ToSet(r) <=> x \in Lying(T)
  <2>1. x \in ToSet(r) <=> \E i \in 1..Len(r) : r[i] = x
    BY <1>3, InList
  <2>2. x \in Lying(T) <=> \E e \in T : Spot(e) = x
    BY DEF Lying
  <2> QED BY <1>1, <1>2, <1>3, <2>1, <2>2
<1>6. ToSet(r) = Lying(T)
  BY <1>5
<1> QED BY <1>3, <1>4, <1>6 DEF Lists, Distinct, r

LEMMA SoundStructures ==
    ASSUME PoolInvariant
    PROVE  StructuresAlive
<1> SUFFICES ASSUME NEW p \in Pools
             PROVE  /\ IsInjective(Structures(p))
                    /\ \A at \in ToSet(Structures(p)) :
                        at[1] \in ToSet(ring[p]) /\ at[2] + CleanupSize <= used[at[1]]
  BY DEF StructuresAlive
<1> DEFINE a == [i \in DOMAIN cleanups[p] |-> cleanups[p][i].at]
           b == [i \in DOMAIN preCleanups[p] |-> preCleanups[p][i].at]
<1>1. /\ Lists(cleanups[p], Entry, Late(p)) /\ Lists(preCleanups[p], Entry, Early(p))
      /\ Lists(spare[p], Spots, Spare(p)) /\ PoolSound(p)
  BY ListsAre DEF PoolInvariant
<1>2. /\ \A e, f \in Late(p) : e.at = f.at => e = f
      /\ \A e, f \in Early(p) : e.at = f.at => e = f
      /\ \A e \in Late(p) : \A f \in Early(p) : e.at # f.at
      /\ \A e \in Late(p) : e.at \notin Spare(p) /\ Within(p, e.at)
      /\ \A e \in Early(p) : e.at \notin Spare(p) /\ Within(p, e.at)
      /\ \A x \in Spare(p) : Within(p, x)
  BY <1>1 DEF PoolSound, Entries
<1>3. Lists(a, Spots, Lying(Late(p))) /\ Lists(b, Spots, Lying(Early(p)))
  BY <1>1, <1>2, ListsLying
<1>4. /\ \A x : x \in Lying(Late(p)) <=> \E e \in Late(p) : x = e.at
      /\ \A x : x \in Lying(Early(p)) <=> \E e \in Early(p) : x = e.at
  BY DEF Lying, Spot
<1> HIDE DEF a, b
<1> DEFINE X == Lying(Late(p)) \cup Lying(Early(p))
<1>5. Lists(a \o b, Spots, X)
  <2>1. \A x \in Lying(Late(p)) : x \notin Lying(Early(p))
    BY <1>2, <1>4
  <2> QED BY <1>3, <2>1, ListsConcat
<1>6. \A x \in X : x \notin Spare(p) /\ Within(p, x)
  BY <1>2, <1>4
<1> HIDE DEF X
<1>7. Lists((a \o b) \o spare[p], Spots, X \cup Spare(p))
  BY <1>1, <1>5, <1>6, ListsConcat
<1>8. Structures(p) = (a \o b) \o spare[p]
  BY DEF Structures, a, b
<1>9. IsInjective(Structures(p))
  BY <1>7, <1>8, InjectiveIs DEF Lists, Distinct
<1>10. ToSet(Structures(p)) = X \cup Spare(p)
  BY <1>7, <1>8 DEF Lists
<1>11. \A x \in X \cup Spare(p) : Within(p, x)
  BY <1>2, <1>6
<1> QED BY <1>9, <1>10, <1>11 DEF Within, In

LEMMA SoundKept ==
    ASSUME PoolInvariant
    PROVE  CleanupsKept
<1> SUFFICES ASSUME NEW c \in DOMAIN stage, stage[c] = "registered"
             PROVE  \E p \in Pools : /\ Exists(p)
                                     /\ \E e \in ToSet(cleanups[p] \o preCleanups[p]) : e.what = c
  BY DEF CleanupsKept
<1>1. c \in Cleanups
  BY DEF PoolInvariant, ListsSound, ListsTyped
<1>2. PICK p \in Pools : \E e \in Entries(p) : e.what = c
  BY <1>1 DEF PoolInvariant, ListsSound, StagesSound
<1>3. Exists(p)
  <2>1. PoolSound(p)
    BY DEF PoolInvariant, ListsSound
  <2> QED BY <1>2, <2>1 DEF PoolSound
<1>4. cleanups[p] \in Seq(Entry) /\ preCleanups[p] \in Seq(Entry)
  BY DEF PoolInvariant, ListsSound, ListsTyped, Lists
<1>5. ToSet(cleanups[p] \o preCleanups[p]) = Entries(p)
  BY <1>4, BothLists DEF Entries, Late, Early
<1> QED BY <1>2, <1>3, <1>5

\* No step but the one that runs a pool's cleanups makes one of them run.
LEMMA OrderStep ==
    ASSUME PoolInvariant, [Next]_vars, NEW p \in Pools, NEW e \in ToSet(cleanups[p]),
           stage[e.what] = "registered", stage'[e.what] = "run"
    PROVE  child[p] = <<>>
<1>1. CallsSound /\ ListsSound /\ e \in Late(p) /\ e \in Entries(p)
  BY DEF PoolInvariant, Late, Entries
<1>2. e.what \in Cleanups /\ DOMAIN stage = Cleanups
  BY <1>1, ListsAre DEF ListsSound, ListsTyped
<1>3. CASE stage' = stage
  BY <1>3
<1>4. CASE \E c \in Cleanups : \E s \in {"new", "registered"} : stage' = [stage EXCEPT ![c] = s]
  BY <1>2, <1>4
<1>5. ASSUME NEW t \in Threads, RunPreCleanup(t) PROVE FALSE
  <2>1. PICK q : q = Head(frames[t]).pool
    OBVIOUS
  <2>2. PICK f : f = Head(preCleanups[q])
    OBVIOUS
  <2>3. Reached(t, "pre") /\ stage' = [stage EXCEPT ![f.what] = "run"]
    BY <1>5, <2>1, <2>2 DEF RunPreCleanup, Run
  <2>4. q \in Pools /\ preCleanups[q] # <<>>
    BY <1>1, <2>1, <2>3, ReachedIs
  <2>5. f \in Early(q) /\ f \in Entries(q)
    <3>1. Lists(preCleanups[q], Entry, Early(q))
      BY <1>1, <2>4, ListsAre
    <3> QED BY <2>2, <2>4, <3>1, ListsTail DEF Entries
  <2>6. f.what = e.what
    BY <1>2, <2>3
  <2>7. q = p
    BY <1>1, <2>4, <2>5, <2>6 DEF ListsSound, StagesSound
  <2>8. f = e
    BY <1>1, <2>5, <2>6, <2>7 DEF ListsSound, PoolSound
  <2> QED BY <1>1, <2>5, <2>7, <2>8 DEF ListsSound, PoolSound
<1>6. ASSUME NEW t \in Threads, RunCleanup(t) PROVE child[p] = <<>>
  <2>1. PICK q : q = Head(frames[t]).pool
    OBVIOUS
  <2>2. PICK f : f = Head(cleanups[q])
    OBVIOUS
  <2>3. Reached(t, "cleanups") /\ stage' = [stage EXCEPT ![f.what] = "run"]
    BY <1>6, <2>1, <2>2 DEF RunCleanup, Run
  <2>4. q \in Pools /\ cleanups[q] # <<>> /\ child[q] = <<>>
    BY <1>1, <2>1, <2>3, ReachedIs
  <2>5. f \in Entries(q)
    <3>1. Lists(cleanups[q], Entry, Late(q))
      BY <1>1, <2>4, ListsAre
    <3> QED BY <2>2, <2>4, <3>1, ListsTail DEF Entries
  <2>6. f.what = e.what
    BY <1>2, <2>3
  <2>7. q = p
    BY <1>1, <2>4, <2>5, <2>6 DEF ListsSound, StagesSound
  <2> QED BY <2>4, <2>7
<1>7. \/ stage' = stage
      \/ \E c \in Cleanups : \E s \in {"new", "registered"} : stage' = [stage EXCEPT ![c] = s]
      \/ \E t \in Threads : RunPreCleanup(t) \/ RunCleanup(t)
  <2>1. ASSUME NEW t \in Threads, Use(t)
        PROVE  \/ stage' = stage
               \/ \E c \in Cleanups : \E s \in {"new", "registered"} : stage' = [stage EXCEPT ![c] = s]
    BY <2>1 DEF Use, UsePalloc, MakeChild, LinkChild, CleanupRegister, PreCleanupRegister, CleanupKill,
                ClearOrDestroy, listVars
  <2>2. ASSUME NEW t \in Threads, Continue(t)
        PROVE  stage' = stage \/ RunPreCleanup(t) \/ RunCleanup(t)
    BY <2>2 DEF Continue, DestroyChild, Return, Unlink, FreeNodes, Reset, listVars
  <2>3. ASSUME NEW t \in Threads, Terminate(t) PROVE stage' = stage
    BY <2>3 DEF Terminate, listVars
  <2>4. DeleteAllocator => stage' = stage
    BY DEF DeleteAllocator, listVars
  <2>5. UNCHANGED vars => stage' = stage
    BY DEF vars, listVars
  <2> QED BY <2>1, <2>2, <2>3, <2>4, <2>5 DEF Next
<1> QED BY <1>3, <1>4, <1>5, <1>6, <1>7

-------------------------------------------------------------------------------
\* The theorems.

\* Every variable of the allocator and of the pools keeps its type; in particular palloc
\* never takes from a node more than it has room for, and no count falls below zero.
THEOREM TypeCorrect == Spec => []TypeOK
<1>1. PoolInvariant => TypeOK
  BY SoundTypes
<1> QED BY <1>1, PoolAlways, PTL

\* Each node malloc has returned is in one place: a bucket of the allocator, the ring of
\* one pool, or a call of make_child; and m_allocated counts their pages.
THEOREM NodesConservedHolds == Spec => []NodesConserved
<1>1. PoolInvariant => NodesConserved
  BY ConservedFromSound DEF PoolInvariant
<1> QED BY <1>1, PoolAlways, PTL

\* What alloc, free and palloc look at instead of all nodes is right: the highest bucket
\* in use, the pages that may still be kept, and the order of a pool's ring.
THEOREM SummariesExactHolds == Spec => []SummariesExact
<1>1. PoolInvariant => SummariesExact
  BY SummariesFromSound DEF PoolInvariant
<1> QED BY <1>1, PoolAlways, PTL

\* The children lists and the parents agree, whatever threads create, clear and destroy
\* pools at once and from cleanups; the last terminate() leaves nothing.
THEOREM TreeSoundHolds == Spec => []TreeSound
<1>1. PoolInvariant => TreeSound
  BY SoundTree, SoundEnd DEF TreeSound
<1> QED BY <1>1, PoolAlways, PTL

\* No cleanup is lost with its pool, and none is read from memory that its pool has
\* given up or handed out again.
THEOREM CleanupsSoundHolds == Spec => []CleanupsSound
<1>1. PoolInvariant => CleanupsSound
  BY SoundStructures, SoundKept DEF CleanupsSound
<1> QED BY <1>1, PoolAlways, PTL

\* clear and ~Pool run a pool's cleanups when its children are gone, those made by its
\* pre-cleanups and by the children's cleanups included.
THEOREM CleanupOrderHolds == Spec => CleanupOrder
<1>1. PoolInvariant /\ [Next]_vars =>
        [\A p \in Pools :
            \A e \in ToSet(cleanups[p]) :
                stage[e.what] = "registered" /\ stage'[e.what] = "run" => child[p] = <<>>]_vars
  BY OrderStep
<1> QED BY <1>1, PoolAlways, PTL DEF Spec, CleanupOrder

===============================================================================
