----------------------------- MODULE PoolAllocator -----------------------------
(***************************************************************************)
(* mempool::custom::Allocator (common/memory/pool): the nodes of memory    *)
(* that pools are made of, and the buckets in which freed nodes wait to be *)
(* used again.  Lengths are in units of the allocator's alignment.         *)
(*                                                                         *)
(* alloc and free run under the allocator's mutex.  alloc gives it up      *)
(* before it calls malloc, and free before it gives memory back, but by    *)
(* then neither looks at anything shared: each is one step.  The allocator *)
(* over a mapped file (run_mmap) is left out.                              *)
(***************************************************************************)
EXTENDS Integers, Sequences, SequencesExt, FiniteSets, FiniteSetsExt

CONSTANTS
    Nodes,       \* addresses malloc can return
    Boundary,    \* BOUNDARY_SIZE, the units of a page
    Header,      \* SIZEOF_MEMNODE
    MaxIndex,    \* MAX_INDEX, the number of buckets
    Maxima       \* what max_free_set may be called with; 0 is unlimited

ASSUME AllocatorAssumption ==
    /\ IsFiniteSet(Nodes)
    /\ Boundary \in Nat \ {0} /\ Header \in 1..2 * Boundary - 1
    /\ MaxIndex \in Nat \ {0, 1} /\ Maxima \subseteq Nat

VARIABLES
    heap,        \* the nodes that malloc has returned and nobody has freed
    index,       \* MemNode::index: one less than the node's pages; 0 without a node
    buf,         \* buf: bucket 0 takes what is too large for one of its own
    last,        \* the highest bucket that is not empty
    current, max,    \* how many pages may still be kept, and at most
    allocated    \* pages malloc'ed

allocatorVars == <<heap, index, buf, last, current, max, allocated>>

Pages(n) == index[n] + 1
Capacity(n) == Pages(n) * Boundary
PagesOf(S) == Cardinality(UNION {{n} \X (1..Pages(n)) : n \in S})

\* What a node must have for a request: two pages at least.
Wanted(size) == Max({2, (size + Header + Boundary - 1) \div Boundary}) - 1

-------------------------------------------------------------------------------
\* alloc

Waiting(want) == {i \in want..last : buf[i] # <<>>}

\* Mutant: last stays where it was.
LastKept(i) == last

\* The highest bucket in use when the last node of bucket i has been taken.
LastAfter(i) ==
    IF i < last \/ Len(buf[i]) > 1 THEN last
    ELSE Max({0} \cup {j \in 1..i - 1 : buf[j] # <<>>})

CountTaken(n) == current' = Min({current + Pages(n), max})

\* The first node of the smallest bucket that will do,
FromBucket(want, n) ==
    /\ Waiting(want) # {}
    /\ LET i == Min(Waiting(want))
       IN  /\ n = Head(buf[i])
           /\ buf' = [buf EXCEPT ![i] = Tail(@)]
           /\ last' = LastAfter(i)
    /\ CountTaken(n)
    /\ UNCHANGED <<heap, index, allocated, max>>

\* ... or, for what is larger than all buckets in use, the first that will do of
\* the large ones,
LargeEnough(want) == {k \in DOMAIN buf[0] : index[buf[0][k]] >= want}

FromSink(want, n) ==
    /\ want > last /\ LargeEnough(want) # {}
    /\ LET k == Min(LargeEnough(want))
       IN  /\ n = buf[0][k]
           /\ buf' = [buf EXCEPT ![0] = RemoveAt(@, k)]
    /\ CountTaken(n)
    /\ UNCHANGED <<heap, index, last, allocated, max>>

\* ... or new memory.
FromMalloc(want, n) ==
    /\ Waiting(want) = {} /\ (want > last => LargeEnough(want) = {})
    /\ n \notin heap
    /\ heap' = heap \cup {n}
    /\ index' = [index EXCEPT ![n] = want]
    /\ allocated' = allocated + want + 1
    /\ UNCHANGED <<buf, last, current, max>>

\* Allocator::alloc(size) returns n.
Alloc(size, n) ==
    LET want == Wanted(size)
    IN  FromBucket(want, n) \/ FromSink(want, n) \/ FromMalloc(want, n)

-------------------------------------------------------------------------------
\* free

\* One node of the list: into its bucket if that many pages may be kept, else it
\* goes back to the system.
Put(a, n) ==
    LET i == IF index[n] < MaxIndex THEN index[n] ELSE 0
    IN  IF max # 0 /\ Pages(n) > a.current
        THEN [a EXCEPT !.back = @ \cup {n}]
        ELSE [a EXCEPT !.buf[i] = <<n>> \o @,
                       !.last = IF a.buf[i] = <<>> THEN Max({@, i}) ELSE @,
                       !.current = Max({0, @ - Pages(n)})]

\* The allocator and what goes back, once all nodes of a list are freed one by one.
AllPut(nodes) ==
    LET put[k \in 0..Len(nodes)] ==
            IF k = 0 THEN [buf |-> buf, last |-> last, current |-> current, back |-> {}]
                     ELSE Put(put[k - 1], nodes[k])
    IN  put[Len(nodes)]

\* Allocator::free of a list of nodes.
Free(nodes) ==
    LET a == AllPut(nodes)
    IN  /\ buf' = a.buf /\ last' = a.last /\ current' = a.current
        /\ heap' = heap \ a.back
        /\ allocated' = allocated - PagesOf(a.back)
        /\ index' = [n \in Nodes |-> IF n \in a.back THEN 0 ELSE index[n]]
        /\ UNCHANGED max

Kept == UNION {ToSet(buf[i]) : i \in DOMAIN buf}

\* ~Allocator
FreeAll ==
    /\ buf' = [i \in DOMAIN buf |-> <<>>]
    /\ heap' = heap \ Kept
    /\ allocated' = allocated - PagesOf(Kept)
    /\ index' = [n \in Nodes |-> IF n \in Kept THEN 0 ELSE index[n]]
    /\ UNCHANGED <<last, current, max>>

===============================================================================
