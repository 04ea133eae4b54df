------------------------------- MODULE PoolBlocks -------------------------------
(***************************************************************************)
(* AllocManager, through which a pool uses again the blocks of memory that *)
(* its containers give back: a list of freed blocks by size, a list of     *)
(* records to describe them with, and the pool's own memory for what the   *)
(* lists do not have.  That memory is one run of addresses here; in Pool   *)
(* it lies in nodes.                                                       *)
(***************************************************************************)
EXTENDS Integers, Sequences, SequencesExt, FiniteSets

CONSTANTS
    Threshold,     \* BlockThreshold: smaller blocks are not used again
    RecordSize,    \* sizeof(MemAddr)
    Sizes,         \* what is asked for
    Space          \* bound: the pool's memory

VARIABLES
    next,         \* first_avail: memory from here on is untouched
    allocated,    \* allocated: what alloc and free have taken since the last reset
    buffered,     \* buffered: the freed blocks, each with its record
    records,      \* free_buffered: records without a block
    live,         \* the blocks in their owners' hands
    late          \* blocks whose owners may still free them after the pool was cleared

vars == <<next, allocated, buffered, records, live, late>>

Init ==
    /\ next = 0 /\ allocated = 0
    /\ buffered = <<>> /\ records = <<>>
    /\ live = {} /\ late = {}

--------------------------------------------------------------------------------
\* free's place for a block: before the first that is not smaller.
Slot(size) == 1 + Cardinality({i \in DOMAIN buffered :
                                 \A j \in 1 .. i : buffered[j].size < size})

\* The block that alloc stops at.
LargeEnough(i, want) == buffered[i].size >= want

\* alloc's choice: the first that is large enough, unless it is more than twice as large.
Fitting(want) ==
    {i \in DOMAIN buffered : /\ LargeEnough(i, want) /\ buffered[i].size <= 2 * want
                             /\ \A j \in 1 .. i - 1 : ~LargeEnough(j, want)}

\* Mutant: a reused block is counted once more.
ReuseCounted(want) ==
    \E i \in Fitting(want) :
        /\ buffered' = RemoveAt(buffered, i)
        /\ records' = <<buffered[i].record>> \o records
        /\ live' = live \cup {[at |-> buffered[i].at, size |-> buffered[i].size, asked |-> want]}
        /\ allocated' = allocated + buffered[i].size
        /\ UNCHANGED <<next, late>>

\* The block leaves the list and its record is spare; the owner is told the block's size.
Reuse(want) ==
    \E i \in Fitting(want) :
        /\ buffered' = RemoveAt(buffered, i)
        /\ records' = <<buffered[i].record>> \o records
        /\ live' = live \cup {[at |-> buffered[i].at, size |-> buffered[i].size, asked |-> want]}
        /\ UNCHANGED <<next, allocated, late>>

\* increment_alloc and palloc
Take(want) ==
    /\ next + want <= Space
    /\ next' = next + want /\ allocated' = allocated + want
    /\ live' = live \cup {[at |-> next, size |-> want, asked |-> want]}
    /\ late' = {}
    /\ UNCHANGED <<buffered, records>>

Alloc(want) == IF want >= Threshold /\ Fitting(want) # {} THEN Reuse(want) ELSE Take(want)

\* Mutant: free does not ask whether the pool has handed out anything since its reset.
KeptAlways(size) == size >= Threshold

Kept(size) == size >= Threshold /\ allocated # 0

Insert(b, size, record) ==
    buffered' = InsertAt(buffered, Slot(size), [at |-> b.at, size |-> size, record |-> record])

\* The list's record comes from the spare ones or from the pool.
Buffer(b, size) ==
    \/ /\ records # <<>>
       /\ Insert(b, size, Head(records)) /\ records' = Tail(records)
       /\ UNCHANGED <<next, allocated>>
    \/ /\ records = <<>> /\ next + RecordSize <= Space
       /\ Insert(b, size, next)
       /\ next' = next + RecordSize /\ allocated' = allocated + RecordSize
       /\ UNCHANGED records

\* An owner frees its block by the size that it asked for (Allocator::deallocate) or by the
\* size that it was told (__deallocate).  After a clear, containers that are still there
\* may free what they had only until the pool is used again: then nothing tells their
\* blocks from new ones.
Free(b, size) ==
    /\ b \in live \cup late
    /\ size \in {b.asked, b.size}
    /\ live' = live \ {b} /\ late' = late \ {b}
    /\ IF Kept(size) THEN Buffer(b, size) ELSE UNCHANGED <<next, allocated, buffered, records>>

\* Pool::clear resets the manager with the memory.
Clear ==
    /\ allocated # 0
    /\ next' = 0 /\ allocated' = 0 /\ buffered' = <<>> /\ records' = <<>>
    /\ live' = {} /\ late' = live

Next ==
    \/ \E want \in Sizes : Alloc(want)
    \/ \E b \in live \cup late : \E size \in {b.asked, b.size} : Free(b, size)
    \/ Clear

Spec == Init /\ [][Next]_vars

--------------------------------------------------------------------------------
(* Properties *)

Block == [at : 0 .. Space - 1, size : 1 .. Space, asked : Sizes]

TypeOK ==
    /\ next \in 0 .. Space /\ allocated = next
    /\ live \subseteq Block /\ late \subseteq Block
    /\ \A i \in DOMAIN buffered : buffered[i].at \in 0 .. next - 1 /\ buffered[i].size >= Threshold

\* What the manager and the owners have, as pieces of memory.
Pieces ==
    {<<b.at, b.size>> : b \in live}
        \cup {<<b.at, b.size>> : b \in ToSet(buffered)}
        \cup {<<b.record, RecordSize>> : b \in ToSet(buffered)}
        \cup {<<r, RecordSize>> : r \in ToSet(records)}

\* No piece of the pool's memory is in two places: whatever is asked for, freed by either
\* size, reused and cleared, no owner's block overlaps another's, a freed one or a record,
\* also when containers free their blocks after the pool was cleared.
BlocksDisjoint ==
    /\ \A p, q \in Pieces :
         p # q => p[1] + p[2] <= q[1] \/ q[1] + q[2] <= p[1]
    /\ Cardinality(Pieces) = Cardinality(live) + 2 * Len(buffered) + Len(records)
    /\ \A p \in Pieces : p[1] + p[2] <= next

\* alloc stops at the first block that is large enough: among all freed blocks this is the
\* smallest that would do, and if it is too large all others are.
BestFit ==
    \A want \in Sizes :
        LET good == {i \in DOMAIN buffered : buffered[i].size \in want .. 2 * want}
        IN  /\ good # {} => Fitting(want) # {}
            /\ \A i \in Fitting(want), j \in good : buffered[i].size <= buffered[j].size
================================================================================
