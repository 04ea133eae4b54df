----------------------------- MODULE PriorityQueue -----------------------------
(***************************************************************************)
(* memory::PriorityQueue (common/memory/SPMemPriorityQueue.h) at the level *)
(* of its nodes: an ordered list of filled nodes and a list of free ones,  *)
(* each behind a lock of its own, over a fixed array of preallocated nodes *)
(* and storage blocks that come and go with the load.                      *)
(*                                                                         *)
(* A push and a pop take their two locks one after the other, never both,  *)
(* so each is two steps; what happens under one lock is one step.  The     *)
(* value of a node is constructed and destroyed between them, by the       *)
(* thread that holds the node.                                             *)
(*                                                                         *)
(* Blocks is the set of addresses the heap hands out: an address is given  *)
(* again once its block is deleted, and the old links of its nodes are     *)
(* what a pointer into it still finds.                                     *)
(***************************************************************************)
EXTENDS PriorityQueueParams, FiniteSets, FiniteSetsExt, SequencesExt

CONSTANTS Threads,
          Preallocated,   \* PreallocatedNodes, 8 in the code
          StorageNodes,   \* nodes of a block, 64 in the code
          Blocks,         \* addresses of storage blocks
          NULL

\* A node is its block, NULL for the preallocated array, and its index there.
Preallocs == {NULL} \X (1..Preallocated)
NodesOf(b) == {b} \X (1..StorageNodes)
Node == Preallocs \cup UNION {NodesOf(b) : b \in Blocks}
BlockOf(n) == n[1]

\* What a node holds: the value's priority, and how and as which push it came.
Content == [prio : Priority, first : BOOLEAN, id : 0..MaxPushes]

ASSUME PQAssumption ==
    /\ Preallocated \in Nat \ {0}
    /\ StorageNodes \in Nat \ {0, 1}
    /\ IsFiniteSet(Threads) /\ IsFiniteSet(Blocks)
    /\ NULL \notin Blocks /\ NULL \notin Node /\ NULL \notin Content

VARIABLES
    mem,       \* the nodes' links and the blocks: next, used, live; and the
               \* two ends of the free list: first, last
    qFirst,    \* _queue.first
    qLast,     \* _queue.last
    entry,     \* the value and priority in each node, NULL if none is built
    pc,        \* what each thread is doing
    node,      \* the node each thread holds, outside of both lists
    pushes,    \* pushes linked so far
    dying,     \* the destructor runs
    cursor     \* the destructor's n

vars == <<mem, qFirst, qLast, entry, pc, node, pushes, dying, cursor>>

-------------------------------------------------------------------------------
\* Links.

Alive(m, n) == BlockOf(n) = NULL \/ BlockOf(n) \in m.live

\* The nodes a list runs through from n, in their order; one more than there are
\* if it runs in a circle.
Chain(next, n) ==
    LET after == [m \in Node \cup {NULL} |-> IF m = NULL THEN NULL ELSE next[m]]
        at[k \in 1..Cardinality(Node) + 1] == IF k = 1 THEN n ELSE after[at[k - 1]]
    IN  [k \in 1..Cardinality({j \in DOMAIN at : at[j] # NULL}) |-> at[k]]

FreeChain == Chain(mem.next, mem.first)
QueueChain == Chain(mem.next, qFirst)

\* initNodes: the first k nodes of a block linked to each other, the last to NULL.
Linked(next, b, k) ==
    [n \in Node |-> IF BlockOf(n) # b THEN next[n]
                    ELSE IF n[2] = k THEN NULL ELSE <<b, n[2] + 1>>]

\* allocateBlock: new StorageBlock at the address b.
AllocateBlock(m, b) ==
    [m EXCEPT !.next = Linked(@, b, StorageNodes),
              !.live = @ \cup {b},
              !.used[b] = 0]

\* The free list with the block b's second and following nodes appended; its
\* end is where _free.last says it is.
AppendRest(m, b) ==
    LET linked == IF m.last # NULL THEN [m EXCEPT !.next[m.last] = <<b, 2>>]
                                   ELSE [m EXCEPT !.first = <<b, 2>>]
    IN  [linked EXCEPT !.last = <<b, StorageNodes>>]

\* The node that allocateNode returns, and the memory it leaves.
AllocatedNode(m, b) == IF m.first # NULL THEN m.first ELSE <<b, 1>>

AllocateNode(m, b) ==
    LET n == AllocatedNode(m, b)
        taken == IF m.first = NULL THEN AppendRest(AllocateBlock(m, b), b)
                 ELSE IF m.first = m.last
                 THEN [m EXCEPT !.first = NULL, !.last = NULL]
                 ELSE [m EXCEPT !.first = m.next[n]]
        unlinked == [taken EXCEPT !.next[n] = NULL]
    IN  IF BlockOf(n) = NULL THEN unlinked
        ELSE [unlinked EXCEPT !.used[BlockOf(n)] = @ + 1]

\* The first node behind the i-th of the chain c that is one of those to keep.
NextKept(c, keep, i) ==
    LET later == {j \in keep : j > i}
    IN  IF later = {} THEN NULL ELSE c[Min(later)]

\* freeNode's removal loop and deallocateBlock: the block's nodes leave the
\* free list.  _free.last is not touched, and may go on naming one of them.
DropBlock(m, b) ==
    LET c == Chain(m.next, m.first)
        keep == {i \in DOMAIN c : BlockOf(c[i]) # b}
        place(n) == CHOOSE i \in keep : c[i] = n
    IN  [m EXCEPT !.next = [n \in Node |-> IF \E i \in keep : c[i] = n
                                            THEN NextKept(c, keep, place(n))
                                            ELSE @[n]],
                  !.first = NextKept(c, keep, 0),
                  !.live = @ \ {b}]

\* Mutant: the node is not counted off.
FreeUncounted(m, n) ==
    [m EXCEPT !.next[n] = m.first, !.first = n, !.last = IF m.last = NULL THEN n ELSE @]

\* freeNode: a block's node goes to the end of the free list, and the block
\* goes away with its last used node; a preallocated node goes to the front.
FreeNode(m, n) ==
    IF BlockOf(n) # NULL
    THEN LET ended == [m EXCEPT !.next[n] = NULL]
             placed == IF m.last # NULL THEN [ended EXCEPT !.next[m.last] = n]
                                        ELSE [ended EXCEPT !.first = n]
             left == [placed EXCEPT !.last = n, !.used[BlockOf(n)] = @ - 1]
         IN  IF left.used[BlockOf(n)] = 0 THEN DropBlock(left, BlockOf(n))
                                          ELSE left
    ELSE [m EXCEPT !.next[n] = m.first, !.first = n,
                   !.last = IF m.last = NULL THEN n ELSE @]

-------------------------------------------------------------------------------
Init ==
    /\ mem = [first |-> <<NULL, 1>>, last |-> <<NULL, Preallocated>>,
              next |-> Linked([n \in Node |-> NULL], NULL, Preallocated),
              used |-> [b \in Blocks |-> 0], live |-> {}]
    /\ qFirst = NULL /\ qLast = NULL
    /\ entry = [n \in Node |-> NULL]
    /\ pc = [t \in Threads |-> "idle"]
    /\ node = [t \in Threads |-> NULL]
    /\ pushes = 0
    /\ dying = FALSE
    /\ cursor = NULL

InHand == {n \in Node : \E t \in Threads : node[t] = n}

\* push, first half: allocateNode under the free lock, then the priority and
\* the value are stored.
PushAllocate(t, p, first) ==
    /\ ~dying /\ pc[t] = "idle"
    /\ pushes + Cardinality({u \in Threads : pc[u] = "filled"}) < MaxPushes
    /\ \E b \in IF mem.first = NULL THEN Blocks \ mem.live ELSE {NULL} :
        /\ mem' = AllocateNode(mem, b)
        /\ node' = [node EXCEPT ![t] = AllocatedNode(mem, b)]
        /\ entry' = [entry EXCEPT ![AllocatedNode(mem, b)] =
                        [prio |-> p, first |-> first, id |-> 0]]
    /\ pc' = [pc EXCEPT ![t] = "filled"]
    /\ UNCHANGED <<qFirst, qLast, pushes, dying, cursor>>

\* Mutant: the walk stops one node early.
WalkStopEarly(c, p, first) ==
    c[Min({i \in DOMAIN c : i = Len(c) \/ ~StaysAhead(entry[c[i]], p, first)})]

\* The node that pushNode links a new one behind, in its walk from the head:
\* the first whose successor does not stay ahead.
WalkStop(c, p, first) ==
    c[Min({i \in DOMAIN c : i = Len(c)
                              \/ ~StaysAhead(entry[c[i + 1]], p, first)})]

\* pushNode, under the queue lock; insertFirst selects strict comparisons.
PushLink(t) ==
    LET n == node[t]
        p == entry[n].prio
        first == entry[n].first
    IN  /\ ~dying /\ pc[t] = "filled"
        /\ entry' = [entry EXCEPT ![n].id = pushes + 1]
        /\ \/ /\ qFirst = NULL
              /\ qFirst' = n /\ qLast' = n
              /\ mem' = [mem EXCEPT !.next[n] = NULL]
           \/ /\ qFirst # NULL /\ ~StaysAhead(entry[qFirst], p, first)
              /\ qFirst' = n /\ UNCHANGED qLast
              /\ mem' = [mem EXCEPT !.next[n] = qFirst]
           \/ /\ qFirst # NULL /\ StaysAhead(entry[qFirst], p, first)
              /\ StaysAhead(entry[qLast], p, first)
              /\ qLast' = n /\ UNCHANGED qFirst
              /\ mem' = [mem EXCEPT !.next[n] = NULL, !.next[qLast] = n]
           \/ /\ qFirst # NULL /\ StaysAhead(entry[qFirst], p, first)
              /\ ~StaysAhead(entry[qLast], p, first)
              /\ LET w == WalkStop(QueueChain, p, first)
                 IN  mem' = [mem EXCEPT !.next[n] = mem.next[w], !.next[w] = n]
              /\ UNCHANGED <<qFirst, qLast>>
        /\ pushes' = pushes + 1
        /\ pc' = [pc EXCEPT ![t] = "idle"]
        /\ node' = [node EXCEPT ![t] = NULL]
        /\ UNCHANGED <<dying, cursor>>

\* Mutant: popping the only node leaves the end of the queue.
PopKeepsEnd(t) ==
    /\ ~dying /\ pc[t] = "idle" /\ qFirst # NULL
    /\ node' = [node EXCEPT ![t] = qFirst]
    /\ mem' = [mem EXCEPT !.next[qFirst] = NULL]
    /\ IF qFirst = qLast THEN UNCHANGED <<qFirst, qLast>>
                         ELSE qFirst' = mem.next[qFirst] /\ UNCHANGED qLast
    /\ pc' = [pc EXCEPT ![t] = "detached"]
    /\ UNCHANGED <<entry, pushes, dying, cursor>>

\* pop_direct and pop_prefix, first half: popNode under the queue lock.  On an
\* empty queue they return false and change nothing.
PopDetach(t) ==
    /\ ~dying /\ pc[t] = "idle" /\ qFirst # NULL
    /\ node' = [node EXCEPT ![t] = qFirst]
    /\ mem' = [mem EXCEPT !.next[qFirst] = NULL]
    /\ IF qFirst = qLast THEN qFirst' = NULL /\ qLast' = NULL
                         ELSE qFirst' = mem.next[qFirst] /\ UNCHANGED qLast
    /\ pc' = [pc EXCEPT ![t] = "detached"]
    /\ UNCHANGED <<entry, pushes, dying, cursor>>

\* ... second half: the value is handed over and destroyed, and freeNode runs
\* under the free lock (pop_prefix calls back after it, pop_direct before).
PopFree(t) ==
    /\ ~dying /\ pc[t] = "detached"
    /\ entry' = [entry EXCEPT ![node[t]] = NULL]
    /\ mem' = FreeNode(mem, node[t])
    /\ node' = [node EXCEPT ![t] = NULL]
    /\ pc' = [pc EXCEPT ![t] = "idle"]
    /\ UNCHANGED <<qFirst, qLast, pushes, dying, cursor>>

\* The memory once each node of the chain c is freed, one after the other.
AllFreed(m, c) ==
    LET freed[k \in 0..Len(c)] == IF k = 0 THEN m ELSE FreeNode(freed[k - 1], c[k])
    IN  freed[Len(c)]

\* clear: every queued node is popped, destroyed and freed under both locks.
\* Its callers run it when no other thread uses the queue.
Clear ==
    /\ ~dying /\ qFirst # NULL
    /\ \A t \in Threads : pc[t] = "idle"
    /\ mem' = AllFreed(mem, QueueChain)
    /\ entry' = [n \in Node |-> NULL]
    /\ qFirst' = NULL /\ qLast' = NULL
    /\ UNCHANGED <<pc, node, pushes, dying, cursor>>

Next ==
    \/ \E t \in Threads :
        \/ \E p \in Priority, first \in BOOLEAN : PushAllocate(t, p, first)
        \/ PushLink(t)
        \/ PopDetach(t)
        \/ PopFree(t)
    \/ Clear

Spec == Init /\ [][Next]_vars

-------------------------------------------------------------------------------
\* The entries on a chain of nodes.
Entries(c) == [i \in DOMAIN c |-> entry[c[i]]]

\* PriorityQueue implements its promise: the queue is what the links from
\* _queue.first run through.
Promise == INSTANCE PriorityQueueSpec WITH queue <- Entries(QueueChain)
ImplementsPromise == Promise!Spec

\* Entries leave by priority, and equals as insertFirst asks: the order the links
\* run in, while other threads push and pop (pushNode's four ways of linking).
RemovalOrder == Promise!RemovalOrder

\* Every field of the two lists holds what its declaration allows.
TypeOK ==
    /\ mem.next \in [Node -> Node \cup {NULL}]
    /\ {mem.first, mem.last, qFirst, qLast} \subseteq Node \cup {NULL}
    /\ mem.used \in [Blocks -> 0..StorageNodes] /\ mem.live \subseteq Blocks
    /\ pc \in [Threads -> {"idle", "filled", "detached"}]
    /\ node \in [Threads -> Node \cup {NULL}]
    /\ pushes \in 0..MaxPushes

\* No node is in two places: the free list, the queue and the threads' hands
\* are disjoint and no list runs in a circle, so that no two threads ever fill
\* the same node (allocateNode, freeNode and popNode under separate locks).
NodesNotShared ==
    LET free == FreeChain
        queued == QueueChain
    IN  /\ IsInjective(free) /\ IsInjective(queued)
        /\ ToSet(free) \cap ToSet(queued) = {}
        /\ InHand \cap (ToSet(free) \cup ToSet(queued)) = {}
        /\ \A t, u \in Threads : t # u /\ node[t] # NULL => node[t] # node[u]

\* A block's node is queued, held or still to be handed out only while its block
\* exists, and the block counts the used ones (StorageBlock::used, the removal
\* loop of freeNode).
BlocksOutliveNodes ==
    LET using == ToSet(QueueChain) \cup InHand
    IN  /\ \A n \in using \cup ToSet(FreeChain) : Alive(mem, n)
        /\ \A b \in mem.live :
            /\ mem.used[b] > 0
            /\ mem.used[b] = Cardinality(using \cap NodesOf(b))

\* A drained queue is back at its preallocated nodes: capacity() and
\* free_capacity() both say so, however it was filled and emptied.
DrainedIsInitial ==
    QueueChain = <<>> /\ InHand = {} =>
        mem.live = {} /\ ToSet(FreeChain) = Preallocs

\* Values live exactly in the nodes that are queued or held.
ValuesInUsedNodes ==
    {n \in Node : entry[n] # NULL} = ToSet(QueueChain) \cup InHand

\* What two locks, two lists and the blocks must preserve together, in any interleaving
\* of allocateNode, pushNode, popNode and freeNode.
MemorySound == NodesNotShared /\ BlocksOutliveNodes /\ DrainedIsInitial /\ ValuesInUsedNodes

-------------------------------------------------------------------------------
\* The destructor: a walk over the queue that destroys and frees each node and
\* only then reads its successor.

Destroy ==
    /\ ~dying
    /\ \A t \in Threads : pc[t] = "idle"
    /\ dying' = TRUE
    /\ cursor' = qFirst
    /\ UNCHANGED <<mem, qFirst, qLast, entry, pc, node, pushes>>

DestroyNode ==
    /\ dying /\ cursor # NULL
    /\ entry' = [entry EXCEPT ![cursor] = NULL]
    /\ mem' = FreeNode(mem, cursor)
    /\ cursor' = mem'.next[cursor]
    /\ UNCHANGED <<qFirst, qLast, pc, node, pushes, dying>>

SpecDestroy == Init /\ [][Next \/ Destroy \/ DestroyNode]_vars

===============================================================================
