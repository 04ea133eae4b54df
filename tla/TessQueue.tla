------------------------------- MODULE TessQueue --------------------------------
(***************************************************************************)
(* VertexPriorityQueue, the event queue of the tessellator's sweep.  The   *)
(* vertexes known at the start are sorted once, in descending order and    *)
(* through pointers, so that the handles given out for them stay valid;    *)
(* what is inserted later (the intersections) goes to a heap whose nodes   *)
(* and handles refer to each other.  The minimum is the smaller of both.   *)
(***************************************************************************)
EXTENDS Integers, Sequences, FiniteSets, SequencesExt

CONSTANTS
    Initial,      \* the vertexes of the contours, numbers from 1 on
    Later,        \* bound: how many intersections are found later
    Place(_),     \* the place of a vertex in the order of the sweep
    Slots,        \* lengths of the allocator's vector of vertexes, not 0
    Cutoff,       \* ranges longer than this are partitioned, others insertion-sorted
    NULL

VARIABLES
    phase,     \* "fill" while the constructor inserts, "sort" in init, then "ready"
    found,     \* how many intersections have been found; they are numbered on
    keys,      \* the array of keys in the order of their insertion
    order,     \* indices in keys; initially in descending order of the keys
    size,      \* the sorted part's size
    stack,     \* the ranges of order that are still to be sorted, the current one last
    heap,      \* the heap: nodes, handles, size, max, free list
    handleOf   \* history: the vertexes in the queue and the handles given out for them

Vertexes == 1 .. Cardinality(Initial) + Later

vars == <<phase, found, keys, order, size, stack, heap, handleOf>>

VertLeq(u, v) == Place(u) <= Place(v)

\* Heap::Heap; nodes and handles from max + 1 on do not exist, NULL is what was never written.
EmptyHeap(max) ==
    [nodes |-> [i \in 1 .. max |-> IF i = 1 THEN 1 ELSE NULL],
     handles |-> [i \in 1 .. max |-> [key |-> NULL, node |-> NULL]],
     size |-> 0, max |-> max, free |-> 0]

Init ==
    /\ phase = "fill" /\ found = 0
    /\ keys = <<>> /\ order = <<>> /\ size = 0 /\ stack = <<>>
    /\ heap \in {EmptyHeap(slots) : slots \in Slots}
    /\ handleOf = <<>>

--------------------------------------------------------------------------------
(* The constructor: insertion and init *)

With(f, v, h) == [u \in DOMAIN f \cup {v} |-> IF u = v THEN h ELSE f[u]]
Without(f, v) == [u \in DOMAIN f \ {v} |-> f[u]]

\* insert before init: negative handles index the array of keys.
InsertKey(v) ==
    /\ phase = "fill" /\ Len(keys) < heap.max /\ v \in Initial \ DOMAIN handleOf
    /\ keys' = Append(keys, v) /\ size' = size + 1
    /\ handleOf' = With(handleOf, v, -(size + 1))
    /\ UNCHANGED <<phase, found, order, stack, heap>>

StartSort ==
    /\ phase = "fill"
    /\ phase' = "sort" /\ order' = [i \in 1 .. size |-> i] /\ stack' = <<<<1, size>>>>
    /\ UNCHANGED <<found, keys, size, heap, handleOf>>

Swap(o, i, j) == [o EXCEPT ![i] = o[j], ![j] = o[i]]

RECURSIVE Partition(_, _, _, _)

\* i goes up to a key that is not greater than the pivot, j down to one that is not less;
\* they are exchanged until i and j have met.
Partition(o, i, j, pivot) ==
    LET up   == CHOOSE n \in i + 1 .. Len(o) :
                    /\ VertLeq(keys[o[n]], pivot)
                    /\ \A m \in i + 1 .. n - 1 : ~VertLeq(keys[o[m]], pivot)
        down == CHOOSE n \in 1 .. j - 1 :
                    /\ VertLeq(pivot, keys[o[n]])
                    /\ \A m \in n + 1 .. j - 1 : ~VertLeq(pivot, keys[o[m]])
    IN  IF up < down THEN Partition(Swap(o, up, down), up, down, pivot)
        ELSE [order |-> o, i |-> up, j |-> down]

\* The longer of the two parts is left on the stack.
Ranges(low, high) ==
    IF low[2] - low[1] < high[2] - high[1] THEN <<high, low>> ELSE <<low, high>>

\* The pivot is any key of the range: the code takes one by a pseudo-random number.
SortStep ==
    /\ phase = "sort" /\ stack # <<>>
    /\ LET p == Last(stack)[1]
           r == Last(stack)[2]
       IN  /\ r > p + Cutoff
           /\ \E n \in p .. r :
                LET cut == Partition(Swap(order, p, n), p - 1, r + 1, keys[order[n]])
                IN  /\ order' = cut.order
                    /\ stack' = Front(stack) \o Ranges(<<p, cut.i - 1>>, <<cut.j + 1, r>>)
    /\ UNCHANGED <<phase, found, keys, size, heap, handleOf>>

\* One key in its place of a descending sequence, behind its equals.
Placed(o, n) ==
    InsertAt(o, Cardinality({i \in DOMAIN o : VertLeq(keys[n], keys[o[i]])}) + 1, n)

SortSmall ==
    /\ phase = "sort" /\ stack # <<>>
    /\ LET p == Last(stack)[1]
           r == Last(stack)[2]
       IN  /\ r <= p + Cutoff
           /\ order' = IF r < p THEN order
                       ELSE SubSeq(order, 1, p - 1) \o FoldLeft(Placed, <<>>, SubSeq(order, p, r))
                              \o SubSeq(order, r + 1, Len(order))
    /\ stack' = Front(stack)
    /\ UNCHANGED <<phase, found, keys, size, heap, handleOf>>

Ready ==
    /\ phase = "sort" /\ stack = <<>>
    /\ phase' = "ready"
    /\ UNCHANGED <<found, keys, order, size, stack, heap, handleOf>>

--------------------------------------------------------------------------------
(* The heap *)

KeyAt(h, i) == h.handles[h.nodes[i]].key

\* The handle at node i goes to node j and the other way round.
Exchange(h, i, j) ==
    [h EXCEPT !.nodes = Swap(@, i, j), !.handles[h.nodes[i]].node = j, !.handles[h.nodes[j]].node = i]

RECURSIVE FloatDown(_, _), FloatUp(_, _)

FloatDown(h, curr) ==
    LET left == curr * 2
        child == IF left < h.size /\ VertLeq(KeyAt(h, left + 1), KeyAt(h, left)) THEN left + 1 ELSE left
    IN  IF child > h.size THEN h
        ELSE IF VertLeq(KeyAt(h, curr), KeyAt(h, child)) THEN h
        ELSE FloatDown(Exchange(h, curr, child), child)

FloatUp(h, curr) ==
    LET parent == curr \div 2
    IN  IF parent = 0 THEN h
        ELSE IF VertLeq(KeyAt(h, parent), KeyAt(h, curr)) THEN h
        ELSE FloatUp(Exchange(h, curr, parent), parent)

\* Both arrays are replaced by arrays of twice their size.
Grown(h) ==
    [h EXCEPT !.max = 2 * @,
              !.nodes = [i \in 1 .. 2 * h.max |-> IF i <= h.max THEN @[i] ELSE NULL],
              !.handles = [i \in 1 .. 2 * h.max |->
                             IF i <= h.max THEN @[i] ELSE [key |-> NULL, node |-> NULL]]]

Room(h, curr) == IF curr * 2 > h.max THEN Grown(h) ELSE h

HeapInsert(h, v) ==
    LET curr == h.size + 1
        room == Room(h, curr)
        free == IF h.free = 0 THEN curr ELSE h.free
        put  == [room EXCEPT !.size = curr, !.nodes[curr] = free,
                             !.free = IF @ = 0 THEN 0 ELSE room.handles[free].node,
                             !.handles[free] = [key |-> v, node |-> curr]]
    IN  [heap |-> FloatUp(put, curr), handle |-> free]

Freed(h, handle) ==
    [h EXCEPT !.handles[handle] = [key |-> NULL, node |-> h.free], !.free = handle]

\* The last node takes the place of node curr.
Moved(h, curr) ==
    [h EXCEPT !.nodes[curr] = h.nodes[h.size], !.handles[h.nodes[h.size]].node = curr,
              !.size = @ - 1]

HeapExtractMin(h) ==
    IF h.size = 0 THEN h
    ELSE LET rest == Freed(Moved(h, 1), h.nodes[1])
         IN  IF rest.size > 0 THEN FloatDown(rest, 1) ELSE rest

\* Mutant: the node that takes the removed one's place only ever goes down.
RemoveDown(h, handle) ==
    LET curr == h.handles[handle].node
        rest == Moved(h, curr)
    IN  Freed(IF curr > rest.size THEN rest ELSE FloatDown(rest, curr), handle)

HeapRemove(h, handle) ==
    LET curr == h.handles[handle].node
        rest == Moved(h, curr)
    IN  Freed(IF curr > rest.size THEN rest
              ELSE IF curr <= 1 THEN FloatDown(rest, curr)
              ELSE IF VertLeq(KeyAt(rest, curr \div 2), KeyAt(rest, curr)) THEN FloatDown(rest, curr)
              ELSE FloatUp(rest, curr), handle)

--------------------------------------------------------------------------------
(* Operations *)

SortMin == keys[order[size]]
HeapMin == KeyAt(heap, 1)

HeapFirst == size = 0 \/ (heap.size > 0 /\ VertLeq(HeapMin, SortMin))

GetMin == IF HeapFirst THEN HeapMin ELSE SortMin

Insert ==
    /\ phase = "ready" /\ found < Later
    /\ found' = found + 1
    /\ LET v == Cardinality(Initial) + found'
           inserted == HeapInsert(heap, v)
       IN  heap' = inserted.heap /\ handleOf' = With(handleOf, v, inserted.handle)
    /\ UNCHANGED <<phase, keys, order, size, stack>>

\* The sorted part without the keys at its end that remove has taken out.
RECURSIVE Trimmed(_, _)

Trimmed(k, n) == IF n > 0 /\ k[order[n]] = NULL THEN Trimmed(k, n - 1) ELSE n

RemoveVertex(v) ==
    /\ phase = "ready" /\ v \in DOMAIN handleOf
    /\ LET handle == handleOf[v]
       IN  IF handle >= 0
           THEN heap' = HeapRemove(heap, handle) /\ UNCHANGED <<keys, size>>
           ELSE /\ keys' = [keys EXCEPT ![-handle] = NULL]
                /\ size' = Trimmed(keys', size)
                /\ UNCHANGED heap
    /\ handleOf' = Without(handleOf, v)
    /\ UNCHANGED <<phase, found, order, stack>>

\* extractMin; on an empty queue it returns no key and changes nothing.
ExtractMin ==
    /\ phase = "ready" /\ DOMAIN handleOf # {}
    /\ IF HeapFirst THEN heap' = HeapExtractMin(heap) /\ UNCHANGED size
       ELSE size' = Trimmed(keys, size - 1) /\ UNCHANGED heap
    /\ handleOf' = Without(handleOf, GetMin)
    /\ UNCHANGED <<phase, found, keys, order, stack>>

Next ==
    \/ \E v \in Vertexes : InsertKey(v) \/ RemoveVertex(v)
    \/ Insert \/ StartSort \/ SortStep \/ SortSmall \/ Ready
    \/ ExtractMin

Spec == Init /\ [][Next]_vars

--------------------------------------------------------------------------------
(* Properties *)

TypeOK ==
    /\ phase \in {"fill", "sort", "ready"} /\ found \in 0 .. Later
    /\ Range(keys) \subseteq Vertexes \cup {NULL} /\ Range(order) \subseteq DOMAIN keys
    /\ size \in 0 .. Len(keys)
    /\ DOMAIN heap.nodes = 1 .. heap.max /\ DOMAIN heap.handles = 1 .. heap.max
    /\ DOMAIN handleOf \subseteq Vertexes

\* The sweep meets the vertexes in order: what getMin returns is the least of all vertexes
\* that were inserted and not extracted or removed, whichever part holds it, and nothing
\* exactly if there is none.  computeInterior ends at the first NULL.  No vertex of the heap
\* comes before the one above it, so that this stays so when the least ones have gone.
MinimumIsLeast ==
    phase = "ready" =>
        /\ IF DOMAIN handleOf = {} THEN GetMin = NULL
           ELSE GetMin \in DOMAIN handleOf /\ \A v \in DOMAIN handleOf : VertLeq(GetMin, v)
        /\ \A i \in 2 .. heap.size : VertLeq(KeyAt(heap, i \div 2), KeyAt(heap, i))

\* A handle finds its vertex as long as the vertex is in the queue, through sorting, growing
\* and moves of nodes, and no other vertex has the same handle.
HandlesFind ==
    \A v \in DOMAIN handleOf :
        LET handle == handleOf[v]
        IN  /\ IF handle < 0 THEN keys[-handle] = v
               ELSE /\ heap.handles[handle].key = v
                    /\ heap.handles[handle].node \in 1 .. heap.size
                    /\ heap.nodes[heap.handles[handle].node] = handle
            /\ \A u \in DOMAIN handleOf \ {v} : handleOf[u] # handle

RECURSIVE FreeHandles(_)

FreeHandles(handle) ==
    IF handle = 0 THEN {} ELSE {handle} \cup FreeHandles(heap.handles[handle].node)

\* The free list holds every handle that was given out and is not in use, and no other: a
\* new handle is taken only when the list is empty, and is then the size of the heap.
FreeHandlesExact ==
    LET used == {heap.nodes[i] : i \in 1 .. heap.size}
        free == FreeHandles(heap.free)
    IN  /\ used \cap free = {}
        /\ used \cup free = 1 .. heap.size + Cardinality(free)

\* SPASSERT(child <= max) in floatDown: it reads the node at twice the index of the last
\* one before it compares it with the size, so the arrays must be twice as long.
ChildWithinMax == heap.size * 2 <= heap.max

\* The stack of 50 ranges in init: each is at least as long as all above it together, so
\* their number is at most the logarithm of the queue's size.
StackLogarithmic == phase = "sort" => 2 ^ Len(stack) <= 2 * (IF size = 0 THEN 1 ELSE size)
================================================================================
