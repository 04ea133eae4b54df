---------------------------- MODULE MCPriorityQueue ----------------------------
(***************************************************************************)
(* The instances of PriorityQueue that TLC checks: one preallocated node   *)
(* and blocks of two, so that a handful of pushes allocates, empties and   *)
(* allocates blocks again; and two properties that the code does not have. *)
(***************************************************************************)
EXTENDS PriorityQueue, TLC

\* Threads and addresses are interchangeable.
Symmetry == Permutations(Threads) \cup Permutations(Blocks)

\* PriorityQueueTest's "Free/Capacity test": capacity() is what is free and what
\* is filled.
FreeCapacityExact ==
    Len(FreeChain) + Len(QueueChain) + Cardinality(InHand)
        = Preallocated + StorageNodes * Cardinality(mem.live)

\* The node lifecycle the code documents: a node the destructor disposes of holds
\* a value, and is read while its block exists.
DisposedOnce ==
    [][dying /\ cursor # NULL =>
            Alive(mem, cursor) /\ (entry[cursor] # NULL)]_vars

===============================================================================
