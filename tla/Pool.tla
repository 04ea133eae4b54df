---------------------------------- MODULE Pool ----------------------------------
(***************************************************************************)
(* mempool::custom::Pool (common/memory/pool): the tree of memory pools    *)
(* under the global pool, whose nodes come from one PoolAllocator.         *)
(*                                                                         *)
(* A pool hands out memory from a ring of nodes and takes nothing back     *)
(* before it is cleared or destroyed.  Then it runs its pre-cleanups,      *)
(* destroys its children, runs its cleanups, and gives its nodes back.     *)
(*                                                                         *)
(* Each thread uses the pools it has created (a pool is not safe to share) *)
(* and creates children of the global pool as it likes: the children lists *)
(* and the allocator are guarded by the allocator's mutex, and what runs   *)
(* under it is one step.  Everything else is the thread's own, up to the   *)
(* cleanup functions, which may use the pools in turn.                     *)
(*                                                                         *)
(* Left out: user data, the reuse of blocks (AllocManager), pools with an  *)
(* allocator of their own, failures of malloc.                             *)
(***************************************************************************)
EXTENDS PoolAllocator

CONSTANTS
    Threads,       \* those that have called initialize()
    Pools,         \* addresses of pools
    Global,        \* s_global_pool
    Cleanups,      \* what can be registered: a function with its data
    Sizes,         \* sizes asked of palloc
    PoolSize,      \* SIZEOF_POOL
    CleanupSize,   \* sizeof(Cleanup)
    NULL

ASSUME PoolAssumption ==
    /\ IsFiniteSet(Threads) /\ Threads # {} /\ Global \in Pools
    /\ Sizes \subseteq Nat \ {0} /\ CleanupSize \in Nat \ {0}
    /\ PoolSize \in 1..2 * Boundary - Header
    /\ NULL \notin Threads \cup Pools \cup Nodes

VARIABLES
    used,        \* MemNode::first_avail, from the start of the node
    freeIndex,   \* MemNode::free_index, 0 where nobody looks at it
    ring,        \* a pool's nodes, from the active one along next
    self,        \* the node a pool lies in
    owner,       \* the thread that has created a pool
    parent, child,                \* child: the list through child and sibling
    preCleanups, cleanups, spare, \* lists of cleanup structures (pre_cleanups,
                                  \* cleanups, free_cleanups)
    stage,       \* what has become of a cleanup; a killed one is as good as new
    frames,      \* a thread's calls of clear and ~Pool, the innermost first
    making,      \* a thread's make_child: the parent and the new node
    users,       \* the threads that s_global_init counts
    deleted      \* the global allocator has been deleted

nodeVars == <<used, freeIndex, ring>>
treeVars == <<self, owner, parent, child>>
listVars == <<preCleanups, cleanups, spare, stage>>
threadVars == <<frames, making, users, deleted>>
vars == <<allocatorVars, nodeVars, treeVars, listVars, threadVars>>

Room(n) == Capacity(n) - used[n]
FreePages(n) == Room(n) \div Boundary

\* A pool's nodes become unused: alloc will set first_avail.
Unused(p) == [n \in Nodes |-> IF n \in ToSet(ring[p]) THEN Header ELSE used[n]]

\* Pool::create: the node is new, and the pool lies at its beginning.
NewPool(p, n) ==
    /\ ring' = [ring EXCEPT ![p] = <<n>>]
    /\ used' = [Unused(p) EXCEPT ![n] = Header + PoolSize]
    /\ freeIndex' = [m \in Nodes |-> IF m \in ToSet(ring[p]) THEN 0 ELSE freeIndex[m]]
    /\ self' = [self EXCEPT ![p] = n]

\* initialize() has created the global pool, in a node of the smallest size, from a
\* fresh allocator, on which max_free_set may have been called.
Init ==
    /\ \E n \in Nodes :
        /\ heap = {n} /\ index = [m \in Nodes |-> IF m = n THEN 1 ELSE 0]
        /\ ring = [p \in Pools |-> IF p = Global THEN <<n>> ELSE <<>>]
        /\ self = [p \in Pools |-> IF p = Global THEN n ELSE NULL]
        /\ used = [m \in Nodes |-> IF m = n THEN Header + PoolSize ELSE Header]
    /\ allocated = 2
    /\ buf = [i \in 0..MaxIndex - 1 |-> <<>>] /\ last = 0
    /\ max \in Maxima /\ current = max
    /\ freeIndex = [n \in Nodes |-> 0]
    /\ owner = [p \in Pools |-> NULL] /\ parent = [p \in Pools |-> NULL]
    /\ child = [p \in Pools |-> <<>>]
    /\ preCleanups = [p \in Pools |-> <<>>] /\ cleanups = preCleanups /\ spare = preCleanups
    /\ stage = [c \in Cleanups |-> "new"]
    /\ frames = [t \in Threads |-> <<>>]
    /\ making = [t \in Threads |-> <<>>]
    /\ users = Threads
    /\ deleted = FALSE

Exists(p) == ring[p] # <<>>

-------------------------------------------------------------------------------
\* palloc

\* Mutant: the old active node stays behind the new one whatever its room.
DemotedUnsorted(rest, free) == rest

\* The ring behind the new active node: the old one goes where its free pages say,
\* behind those that have more.
Demoted(rest, free) ==
    LET old == Head(rest)
        more == {k \in 0..Len(rest) - 1 : \A j \in 2..k + 1 : freeIndex[rest[j]] > free}
    IN  InsertAt(Tail(rest), Max(more) + 1, old)

\* Node n becomes the active one, with size units taken, in front of the others.
Activate(p, n, first, size, rest) ==
    /\ used' = [used EXCEPT ![n] = first + size]
    /\ freeIndex' = [freeIndex EXCEPT ![n] = 0, ![Head(rest)] = FreePages(Head(rest))]
    /\ ring' = [ring EXCEPT ![p] = <<n>> \o Demoted(rest, FreePages(Head(rest)))]

\* Mutant: no test of the room.
FitsAnywhere(n, size) == TRUE

Fits(n, size) == size <= Room(n)

\* The memory is taken from the active node, from the next one, which has the most
\* room of the others, or from a new node: n says which.
Palloc(p, size, n) ==
    LET active == Head(ring[p])
        next == ring[p][2]
    IN  \/ /\ Fits(active, size) /\ n = active
           /\ used' = [used EXCEPT ![n] = @ + size]
           /\ UNCHANGED <<allocatorVars, freeIndex, ring>>
        \/ /\ ~Fits(active, size) /\ Len(ring[p]) > 1 /\ Fits(next, size) /\ n = next
           /\ Activate(p, n, used[n], size, RemoveAt(ring[p], 2))
           /\ UNCHANGED allocatorVars
        \/ /\ ~Fits(active, size) /\ (Len(ring[p]) > 1 => ~Fits(next, size))
           /\ Alloc(size, n)
           /\ Activate(p, n, Header, size, ring[p])

\* ... and where in it.
Place(p, n) == <<n, IF n \in ToSet(ring[p]) THEN used[n] ELSE Header>>

-------------------------------------------------------------------------------
\* What a thread may call, a cleanup function included.  It must leave alone what
\* is being destroyed: cleared or destroyed are only pools no call on the stack
\* works on, or below; and once a pool's pre-cleanups have run, or its children
\* are gone, no more of them are added.

Busy(t) == {frames[t][k].pool : k \in DOMAIN frames[t]}

\* The pools that p is below: each set that holds p's parent, and the parents of
\* its own, has them all.
Upward(S) == \A q \in S : parent[q] # NULL => parent[q] \in S
Above(p) ==
    {q \in Pools : \A S \in SUBSET Pools : Upward(S) /\ parent[p] \in S \cup {NULL} => q \in S}

Calling(t) == /\ making[t] = <<>>
              /\ IF frames[t] = <<>> THEN t \in users ELSE Head(frames[t]).calling

Uses(t, p) == Calling(t) /\ Exists(p) /\ owner[p] = t

At(t, p) == {frames[t][k].at : k \in {i \in DOMAIN frames[t] : frames[t][i].pool = p}}

UsePalloc(t, p) ==
    /\ Uses(t, p)
    /\ \E size \in Sizes, n \in Nodes : Palloc(p, size, n)
    /\ UNCHANGED <<treeVars, listVars, threadVars>>

\* A structure for a cleanup, a spare one or new memory, joins a list.
Entered(lists, p, c, at) == [lists EXCEPT ![p] = <<[what |-> c, at |-> at]>> \o @]

Structure(p, at) ==
    \/ /\ spare[p] # <<>> /\ at = Head(spare[p])
       /\ spare' = [spare EXCEPT ![p] = Tail(@)]
       /\ UNCHANGED <<allocatorVars, nodeVars>>
    \/ /\ spare[p] = <<>> /\ at = Place(p, at[1])
       /\ Palloc(p, CleanupSize, at[1])
       /\ UNCHANGED spare

Places(p) == ToSet(spare[p]) \cup {Place(p, n) : n \in Nodes}

CleanupRegister(t, p, c) ==
    /\ Uses(t, p) /\ stage[c] = "new"
    /\ \E at \in Places(p) : Structure(p, at) /\ cleanups' = Entered(cleanups, p, c, at)
    /\ stage' = [stage EXCEPT ![c] = "registered"]
    /\ UNCHANGED <<treeVars, preCleanups, threadVars>>

PreCleanupRegister(t, p, c) ==
    /\ Uses(t, p) /\ stage[c] = "new"
    /\ At(t, p) \subseteq {"pre"}
    /\ \E at \in Places(p) : Structure(p, at) /\ preCleanups' = Entered(preCleanups, p, c, at)
    /\ stage' = [stage EXCEPT ![c] = "registered"]
    /\ UNCHANGED <<treeVars, cleanups, threadVars>>

\* cleanup_kill: the structure becomes a spare one.
Without(list, c) == RemoveFirstMatch(list, LAMBDA e : e.what = c)
StructureOf(p, c) ==
    LET e == CHOOSE x \in ToSet(cleanups[p] \o preCleanups[p]) : x.what = c IN e.at

CleanupKill(t, p, c) ==
    /\ Uses(t, p)
    /\ \E e \in ToSet(cleanups[p] \o preCleanups[p]) : e.what = c
    /\ cleanups' = [cleanups EXCEPT ![p] = Without(@, c)]
    /\ preCleanups' = [preCleanups EXCEPT ![p] = Without(@, c)]
    /\ spare' = [spare EXCEPT ![p] = <<StructureOf(p, c)>> \o @]
    /\ stage' = [stage EXCEPT ![c] = "new"]
    /\ UNCHANGED <<allocatorVars, nodeVars, treeVars, threadVars>>

\* make_child: the child's node first,
MakeChild(t, p) ==
    /\ Calling(t) /\ Exists(p) /\ (p = Global \/ owner[p] = t)
    /\ At(t, p) \subseteq {"pre", "children"}
    /\ \E n \in Nodes :
        /\ Alloc(2 * Boundary - Header, n)
        /\ making' = [making EXCEPT ![t] = <<p, n>>]
    /\ UNCHANGED <<nodeVars, treeVars, listVars, frames, users, deleted>>

\* Mutant: the child takes the place of its siblings.
LinkAlone(t, q) ==
    /\ making[t] # <<>> /\ ~Exists(q)
    /\ LET p == making[t][1]
       IN  /\ NewPool(q, making[t][2])
           /\ parent' = [parent EXCEPT ![q] = p]
           /\ child' = [child EXCEPT ![p] = <<q>>]
    /\ owner' = [owner EXCEPT ![q] = t]
    /\ making' = [making EXCEPT ![t] = <<>>]
    /\ UNCHANGED <<allocatorVars, listVars, frames, users, deleted>>

\* ... then its place in the parent's list.
LinkChild(t, q) ==
    /\ making[t] # <<>> /\ ~Exists(q)
    /\ LET p == making[t][1]
       IN  /\ NewPool(q, making[t][2])
           /\ parent' = [parent EXCEPT ![q] = p]
           /\ child' = [child EXCEPT ![p] = <<q>> \o @]
    /\ owner' = [owner EXCEPT ![q] = t]
    /\ making' = [making EXCEPT ![t] = <<>>]
    /\ UNCHANGED <<allocatorVars, listVars, frames, users, deleted>>

-------------------------------------------------------------------------------
\* clear and ~Pool

Begun(p, clear) == [pool |-> p, clear |-> clear, at |-> "pre", calling |-> FALSE]

Begin(t, p, clear) == frames' = [frames EXCEPT ![t] = <<Begun(p, clear)>> \o @]

ClearOrDestroy(t, p, clear) ==
    /\ Uses(t, p) /\ p # Global
    /\ \A q \in Busy(t) : p # q /\ p \notin Above(q)
    /\ Begin(t, p, clear)
    /\ UNCHANGED <<allocatorVars, nodeVars, treeVars, listVars, making, users, deleted>>

\* Mutant: the pre-cleanups are forgotten.
ReachedNoPre(t, phase) ==
    /\ frames[t] # <<>> /\ ~Head(frames[t]).calling
    /\ LET p == Head(frames[t]).pool
           at == Head(frames[t]).at
       IN  phase = IF at \in {"pre", "children"} /\ child[p] # <<>> THEN "children"
                   ELSE IF at \in {"pre", "children", "cleanups"} /\ cleanups[p] # <<>>
                        THEN "cleanups"
                   ELSE IF at = "unlinked" THEN "free" ELSE "end"

\* Mutant: the cleanups run before the children go.
ReachedParentFirst(t, phase) ==
    /\ frames[t] # <<>> /\ ~Head(frames[t]).calling
    /\ LET p == Head(frames[t]).pool
           at == Head(frames[t]).at
       IN  phase = IF at = "pre" /\ preCleanups[p] # <<>> THEN "pre"
                   ELSE IF at # "unlinked" /\ cleanups[p] # <<>> THEN "cleanups"
                   ELSE IF at # "unlinked" /\ child[p] # <<>> THEN "children"
                   ELSE IF at = "unlinked" THEN "free" ELSE "end"

\* What the innermost call does next, when no cleanup function runs.
Reached(t, phase) ==
    /\ frames[t] # <<>> /\ ~Head(frames[t]).calling
    /\ LET p == Head(frames[t]).pool
           at == Head(frames[t]).at
       IN  phase = IF at = "pre" /\ preCleanups[p] # <<>> THEN "pre"
                   ELSE IF at \in {"pre", "children"} /\ child[p] # <<>> THEN "children"
                   ELSE IF at \in {"pre", "children", "cleanups"} /\ cleanups[p] # <<>>
                        THEN "cleanups"
                   ELSE IF at = "unlinked" THEN "free" ELSE "end"

\* Cleanup::run: the structure leaves the list, then the function is called.
Run(t, lists, at) ==
    LET p == Head(frames[t]).pool
    IN  /\ Reached(t, at)
        /\ lists' = [lists EXCEPT ![p] = Tail(@)]
        /\ stage' = [stage EXCEPT ![Head(lists[p]).what] = "run"]
        /\ frames' = [frames EXCEPT ![t][1].calling = TRUE, ![t][1].at = at]

RunPreCleanup(t) ==
    /\ Run(t, preCleanups, "pre")
    /\ UNCHANGED <<allocatorVars, nodeVars, treeVars, cleanups, spare, making, users,
                   deleted>>

RunCleanup(t) ==
    /\ Run(t, cleanups, "cleanups")
    /\ UNCHANGED <<allocatorVars, nodeVars, treeVars, preCleanups, spare, making, users,
                   deleted>>

\* The function returns.
Return(t) ==
    /\ frames[t] # <<>> /\ Calling(t)
    /\ frames' = [frames EXCEPT ![t][1].calling = FALSE]
    /\ UNCHANGED <<allocatorVars, nodeVars, treeVars, listVars, making, users, deleted>>

DestroyChild(t) ==
    /\ Reached(t, "children")
    /\ LET f == Head(frames[t])
       IN  frames' = [frames EXCEPT ![t] = <<Begun(Head(child[f.pool]), FALSE),
                                            [f EXCEPT !.at = "children"]>> \o Tail(@)]
    /\ UNCHANGED <<allocatorVars, nodeVars, treeVars, listVars, making, users, deleted>>

\* ~Pool: the pool leaves its parent's list, if it has a parent.
Unlink(t) ==
    /\ Reached(t, "end") /\ ~Head(frames[t]).clear
    /\ LET p == Head(frames[t]).pool
       IN  /\ spare' = [spare EXCEPT ![p] = <<>>]
           /\ child' = [q \in Pools |-> IF q = parent[p] THEN RemoveFirst(child[q], p)
                                                          ELSE child[q]]
    /\ frames' = [frames EXCEPT ![t][1].at = "unlinked"]
    /\ UNCHANGED <<allocatorVars, nodeVars, self, owner, parent, preCleanups, cleanups,
                   stage, making, users, deleted>>

\* The pool's nodes in the order of their links, its own node first.
FromSelf(p) ==
    LET k == CHOOSE i \in DOMAIN ring[p] : ring[p][i] = self[p]
    IN  SubSeq(ring[p], k, Len(ring[p])) \o SubSeq(ring[p], 1, k - 1)

\* ~Pool gives all nodes back,
FreeNodes(t) ==
    LET p == Head(frames[t]).pool
    IN  /\ Reached(t, "free")
        /\ Free(FromSelf(p))
        /\ ring' = [ring EXCEPT ![p] = <<>>]
        /\ used' = Unused(p)
        /\ freeIndex' = [n \in Nodes |-> IF n \in ToSet(ring[p]) THEN 0 ELSE freeIndex[n]]
        /\ self' = [self EXCEPT ![p] = NULL] /\ owner' = [owner EXCEPT ![p] = NULL]
        /\ parent' = [parent EXCEPT ![p] = NULL]
        /\ frames' = [frames EXCEPT ![t] = Tail(@)]
        /\ UNCHANGED <<child, listVars, making, users, deleted>>

\* Mutant: the ring is left as it is.
ResetKeepsRing(t) ==
    LET p == Head(frames[t]).pool
    IN  /\ Reached(t, "end") /\ Head(frames[t]).clear
        /\ Free(Tail(FromSelf(p)))
        /\ used' = [used EXCEPT ![self[p]] = Header + PoolSize]
        /\ spare' = [spare EXCEPT ![p] = <<>>]
        /\ frames' = [frames EXCEPT ![t] = Tail(@)]
        /\ UNCHANGED <<freeIndex, ring, treeVars, preCleanups, cleanups, stage, making,
                       users, deleted>>

\* clear: all but the pool's own node, which is as good as new.
Reset(t) ==
    LET p == Head(frames[t]).pool
    IN  /\ Reached(t, "end") /\ Head(frames[t]).clear
        /\ Free(Tail(FromSelf(p)))
        /\ NewPool(p, self[p])
        /\ spare' = [spare EXCEPT ![p] = <<>>]
        /\ frames' = [frames EXCEPT ![t] = Tail(@)]
        /\ UNCHANGED <<owner, parent, child, preCleanups, cleanups, stage, making, users,
                       deleted>>

-------------------------------------------------------------------------------
\* terminate(): the last thread destroys the global pool, with what is left below
\* it, and its allocator.
Terminate(t) ==
    /\ t \in users /\ frames[t] = <<>> /\ making[t] = <<>>
    /\ users' = users \ {t}
    /\ IF users = {t} THEN Begin(t, Global, FALSE) ELSE UNCHANGED frames
    /\ UNCHANGED <<allocatorVars, nodeVars, treeVars, listVars, making, deleted>>

DeleteAllocator ==
    /\ users = {} /\ ~Exists(Global) /\ ~deleted
    /\ FreeAll
    /\ deleted' = TRUE
    /\ UNCHANGED <<nodeVars, treeVars, listVars, frames, making, users>>

-------------------------------------------------------------------------------
Use(t) ==
    \E p \in Pools :
        \/ UsePalloc(t, p) \/ MakeChild(t, p) \/ LinkChild(t, p)
        \/ \E c \in Cleanups : \/ CleanupRegister(t, p, c) \/ PreCleanupRegister(t, p, c)
                               \/ CleanupKill(t, p, c)
        \/ \E clear \in BOOLEAN : ClearOrDestroy(t, p, clear)

Continue(t) ==
    \/ RunPreCleanup(t) \/ DestroyChild(t) \/ RunCleanup(t) \/ Return(t)
    \/ Unlink(t) \/ FreeNodes(t) \/ Reset(t)

Next ==
    \/ \E t \in Threads : Use(t) \/ Continue(t) \/ Terminate(t)
    \/ DeleteAllocator

Spec == Init /\ [][Next]_vars

-------------------------------------------------------------------------------
Held == {making[t][2] : t \in {u \in DOMAIN making : making[u] # <<>>}}

\* Every variable holds what its declaration allows; in particular nothing is taken
\* from a node beyond its end.
TypeOK ==
    /\ heap \subseteq Nodes /\ last \in 0..MaxIndex - 1
    /\ current \in 0..max /\ allocated \in Nat
    /\ \A n \in heap : used[n] <= Capacity(n)
    /\ ring \in [Pools -> Seq(heap)]
    /\ stage \in [DOMAIN stage -> {"new", "registered", "run"}]
    /\ users \subseteq DOMAIN frames

\* Each node that malloc has returned is in exactly one place: a bucket, the ring of
\* one pool, or the hands of one thread that makes a child.  Nothing is lost, nothing
\* is handed out twice, and the allocator's count of its memory is right.
Rings == UNION {ToSet(ring[p]) : p \in Pools}
NodesConserved ==
    /\ heap = Kept \cup Rings \cup Held
    /\ Kept \cap Rings = {} /\ Held \cap (Kept \cup Rings) = {}
    /\ \A i, j \in DOMAIN buf : i # j => ToSet(buf[i]) \cap ToSet(buf[j]) = {}
    /\ \A p, q \in Pools : p # q => ToSet(ring[p]) \cap ToSet(ring[q]) = {}
    /\ \A i \in DOMAIN buf : IsInjective(buf[i])
    /\ \A p \in Pools : IsInjective(ring[p])
    /\ \A t, u \in DOMAIN making : t # u /\ making[t] # <<>> /\ making[u] # <<>> =>
            making[t][2] # making[u][2]
    /\ allocated = PagesOf(heap)

\* last is the highest bucket in use: alloc, which looks no further, misses no node
\* that would do.
LastExact ==
    ~deleted => /\ last = 0 \/ buf[last] # <<>>
                /\ \A i \in last + 1..MaxIndex - 1 : buf[i] = <<>>

\* No more than max pages are kept for later, and current says how many more may be.
KeptBounded == max # 0 /\ ~deleted => PagesOf(Kept) + current = max

\* Behind the active node the ring is sorted by free pages, so that the next node is
\* the only one palloc has to try.
RingSorted ==
    \A p \in Pools : \A i \in 2..Len(ring[p]) :
        /\ freeIndex[ring[p][i]] = FreePages(ring[p][i])
        /\ i > 2 => FreePages(ring[p][i]) <= FreePages(ring[p][i - 1])

\* What alloc, free and palloc rely on instead of looking at every node.
SummariesExact == LastExact /\ KeptBounded /\ RingSorted

\* The cleanup structures of a pool, spare ones included, are parts of its memory
\* that it has handed out since it was last reset, each in one list only.
Structures(p) ==
    [i \in DOMAIN cleanups[p] |-> cleanups[p][i].at]
        \o [i \in DOMAIN preCleanups[p] |-> preCleanups[p][i].at] \o spare[p]
StructuresAlive ==
    \A p \in Pools :
        /\ IsInjective(Structures(p))
        /\ \A at \in ToSet(Structures(p)) :
            at[1] \in ToSet(ring[p]) /\ at[2] + CleanupSize <= used[at[1]]

\* A registered cleanup is in a list of a pool that exists: whatever is cleared or
\* destroyed, by whom and in what order, it is run or killed before its pool goes.
CleanupsKept ==
    \A c \in DOMAIN stage :
        stage[c] = "registered" =>
            \E p \in Pools : /\ Exists(p)
                             /\ \E e \in ToSet(cleanups[p] \o preCleanups[p]) : e.what = c

\* Cleanups survive whatever clear and ~Pool do to the memory they are written in.
CleanupsSound == StructuresAlive /\ CleanupsKept

\* The tree is one: each pool is in its parent's list, once, until it unlinks itself,
\* and its parent exists as long as it does.
TreeConsistent ==
    \A p \in Pools :
        /\ IsInjective(child[p])
        /\ \A q \in ToSet(child[p]) : Exists(p) /\ Exists(q) /\ parent[q] = p
        /\ Exists(p) /\ p # Global =>
            /\ Exists(parent[p])
            /\ \/ p \in ToSet(child[parent[p]])
               \/ \E t \in DOMAIN frames : \E k \in DOMAIN frames[t] :
                    frames[t][k].pool = p /\ frames[t][k].at = "unlinked"

\* When the cleanups of a pool run, its children are gone: what they refer to in
\* their parent is still there while their own cleanups run.
CleanupOrder ==
    [][\A p \in Pools :
        \A e \in ToSet(cleanups[p]) :
            stage[e.what] = "registered" /\ stage'[e.what] = "run" => child[p] = <<>>]_vars

\* After the last terminate() nothing is left: every node is given back and every
\* cleanup has been run, whatever pools the threads left behind.
TerminatedClean ==
    deleted => /\ heap = {} /\ allocated = 0
               /\ \A c \in DOMAIN stage : stage[c] # "registered"
               /\ \A p \in Pools : ~Exists(p)

\* The tree of pools is one from the first initialize to the last terminate.
TreeSound == TreeConsistent /\ TerminatedClean

===============================================================================
