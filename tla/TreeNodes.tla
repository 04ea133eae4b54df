------------------------------- MODULE TreeNodes -------------------------------
(***************************************************************************)
(* Where the nodes of a Tree come from: reserve takes a block of nodes from *)
(* the allocator in one call, the tree keeps nodes that it does not use in *)
(* the chain _tmp, and releaseTmp gives them back: single nodes one by one, *)
(* blocks whole, once all their nodes are in the chain again.  Which key a *)
(* node holds and how the nodes are linked is in Rbtree.                   *)
(***************************************************************************)
EXTENDS Integers, FiniteSets, Sequences

CONSTANTS
    Trees,
    Space,       \* addresses 1 .. Space of nodes
    MaxIndex     \* bound: how often one tree reserves nodes

VARIABLES
    used,        \* the nodes in each tree
    tmp,         \* the chain _tmp of each tree, its head first
    header,      \* the header's flag: size (nodes in tmp), index (blocks), prealloc
    size,        \* _size
    node,        \* the flag of each node: prealloc and index
    allocated    \* history: the addresses that the allocator has handed out

vars == <<used, tmp, header, size, node, allocated>>

Address == 1 .. Space
Range(s) == {s[i] : i \in DOMAIN s}
Flag == [size |-> 0, index |-> 0, prealloc |-> FALSE]

Init ==
    /\ used = [t \in Trees |-> {}] /\ tmp = [t \in Trees |-> <<>>]
    /\ header = [t \in Trees |-> Flag] /\ size = [t \in Trees |-> 0]
    /\ node = [a \in Address |-> [prealloc |-> FALSE, index |-> 0]]
    /\ allocated = {}

\* External: the allocator gives any count addresses in a row that it has not handed out;
\* which ones does not matter, so it is the first.
Fits(a, count) == a + count - 1 <= Space /\ (a .. a + count - 1) \cap allocated = {}
FirstFit(count) == CHOOSE a \in Address : Fits(a, count) /\ \A b \in 1 .. a - 1 : ~Fits(b, count)

\* allocateTmp: the block's nodes go before the rest of the chain.
Reserve(t, capacity) ==
    LET count == capacity - size[t]
        first == FirstFit(count)
        block == [i \in 1 .. count |-> first + i - 1]
        index == header[t].index + 1
    IN  /\ capacity > size[t] + header[t].size
        /\ index <= MaxIndex
        /\ \E a \in Address : Fits(a, count)
        /\ header' = [header EXCEPT ![t].index = index, ![t].size = @ + count]
        /\ tmp' = [tmp EXCEPT ![t] = block \o @]
        /\ node' = [a \in Address |->
                      IF a \in Range(block) THEN [prealloc |-> TRUE, index |-> index] ELSE node[a]]
        /\ allocated' = allocated \cup Range(block)
        /\ UNCHANGED <<used, size>>

\* makeInsert of a new key, with allocateNode.
Insert(t) ==
    /\ size' = [size EXCEPT ![t] = @ + 1]
    /\ IF tmp[t] # <<>>
       THEN /\ used' = [used EXCEPT ![t] = @ \cup {Head(tmp[t])}]
            /\ tmp' = [tmp EXCEPT ![t] = Tail(@)]
            /\ header' = [header EXCEPT ![t].size = @ - 1]
            /\ UNCHANGED <<node, allocated>>
       ELSE LET a == FirstFit(1)
            IN  /\ allocated # Address
                /\ used' = [used EXCEPT ![t] = @ \cup {a}]
                /\ node' = [node EXCEPT ![a] = [prealloc |-> FALSE, index |-> 0]]
                /\ allocated' = allocated \cup {a}
                /\ UNCHANGED <<tmp, header>>

\* destroyNode for each of a sequence of nodes: [tmp, held] after it.
RECURSIVE Destroyed(_, _, _)

Kept(t, chain, a) == chain = <<>> \/ node[a].prealloc \/ header[t].prealloc

Destroyed(t, chain, nodes) ==
    IF nodes = <<>> THEN [chain |-> chain, freed |-> {}]
    ELSE IF Kept(t, chain, Head(nodes))
    THEN Destroyed(t, <<Head(nodes)>> \o chain, Tail(nodes))
    ELSE LET rest == Destroyed(t, chain, Tail(nodes))
         IN  [rest EXCEPT !.freed = @ \cup {Head(nodes)}]

\* A node in use goes: deleteNode of one, or clear_visit of all, in any order of theirs.
DestroyAll(t, nodes) ==
    LET after == Destroyed(t, tmp[t], nodes)
    IN  /\ used' = [used EXCEPT ![t] = @ \ Range(nodes)]
        /\ tmp' = [tmp EXCEPT ![t] = after.chain]
        /\ header' = [header EXCEPT ![t].size = @ + Len(after.chain) - Len(tmp[t])]
        /\ allocated' = allocated \ after.freed
        /\ size' = [size EXCEPT ![t] = @ - Len(nodes)]
        /\ UNCHANGED node

Orders(S) == {s \in [1 .. Cardinality(S) -> S] : Range(s) = S}

Erase(t, a) == DestroyAll(t, <<a>>)

Clear(t) == used[t] # {} /\ \E s \in Orders(used[t]) : DestroyAll(t, s)

SetMemoryPersistent(t, value) ==
    /\ header[t].prealloc # value
    /\ header' = [header EXCEPT ![t].prealloc = value]
    /\ UNCHANGED <<used, tmp, size, node, allocated>>

\* releaseTmp: what is deallocated of the chain.  The nodes of a block are given back in one
\* call that names the lowest of them and their number; with a single block counted all
\* preallocated nodes are taken to be of it.
Low(S) == CHOOSE a \in S : \A b \in S : a <= b
Batch(S) == IF S = {} THEN {} ELSE Low(S) .. Low(S) + Cardinality(S) - 1

\* Mutant: the blocks are not told apart.
OneBatch(t, blocks) == Batch(blocks)

BatchesOf(t, blocks) ==
    CASE header[t].index = 0 -> blocks
      [] header[t].index = 1 -> Batch(blocks)
      [] OTHER -> UNION {Batch({a \in blocks : node[a].index = i}) : i \in 1 .. header[t].index}

\* Mutant: a block is released although nodes of it are in use.
ReleasedEarly(t, chain, empty) == chain

ReleasedOf(t, chain, empty) ==
    LET blocks == {a \in chain : node[a].prealloc}
    IN  (chain \ blocks) \cup IF empty THEN BatchesOf(t, blocks) ELSE {}

ShrinkToFit(t) ==
    LET kept == SelectSeq(tmp[t], LAMBDA a : size[t] # 0 /\ node[a].prealloc)
    IN  /\ tmp[t] # <<>>
        /\ tmp' = [tmp EXCEPT ![t] = kept]
        /\ header' = [header EXCEPT ![t].size = @ - (Len(tmp[t]) - Len(kept))]
        /\ allocated' = allocated \ ReleasedOf(t, Range(tmp[t]), size[t] = 0)
        /\ UNCHANGED <<used, size, node>>

\* The destructor, clear and releaseTmp, and a new tree in the old one's place.
Destroy(t) ==
    \E s \in Orders(used[t]) :
        LET after == Destroyed(t, tmp[t], s)
        IN  /\ allocated' = allocated \ (after.freed \cup ReleasedOf(t, Range(after.chain), TRUE))
            /\ used' = [used EXCEPT ![t] = {}] /\ tmp' = [tmp EXCEPT ![t] = <<>>]
            /\ header' = [header EXCEPT ![t] = Flag] /\ size' = [size EXCEPT ![t] = 0]
            /\ UNCHANGED node

NodesNext(t) ==
    \/ \E c \in 1 .. Space : Reserve(t, c)
    \/ Insert(t)
    \/ \E a \in used[t] : Erase(t, a)
    \/ Clear(t)
    \/ \E value \in BOOLEAN : SetMemoryPersistent(t, value)
    \/ ShrinkToFit(t)
    \/ Destroy(t)

Next == \E t \in Trees : NodesNext(t)

Spec == Init /\ [][Next]_vars

--------------------------------------------------------------------------------
(* Properties *)

TypeOK ==
    /\ used \in [Trees -> SUBSET Address]
    /\ \A t \in Trees : Range(tmp[t]) \subseteq Address
    /\ header \in [Trees -> [size : 0 .. Space, index : 0 .. MaxIndex, prealloc : BOOLEAN]]
    /\ size \in [Trees -> 0 .. Space]
    /\ node \in [Address -> [prealloc : BOOLEAN, index : 0 .. MaxIndex]]
    /\ allocated \in SUBSET Address

Holds(t) == used[t] \cup Range(tmp[t])

\* The memory that the allocator has handed out is what the trees hold, each node in one
\* place: releasing blocks by their lowest node and the number of their nodes returns
\* nothing that is in use or in another block, and leaves nothing behind.
NodesBacked ==
    /\ allocated = UNION {Holds(t) : t \in Trees}
    /\ \A t \in Trees :
         /\ used[t] \cap Range(tmp[t]) = {}
         /\ Cardinality(Range(tmp[t])) = Len(tmp[t])
         /\ \A other \in Trees \ {t} : Holds(t) \cap Holds(other) = {}

\* capacity(): what the header counts as extra is what the chain holds, through reserving,
\* keeping, releasing and destroying.
CapacityExact == \A t \in Trees : header[t].size = Len(tmp[t]) /\ size[t] = Cardinality(used[t])

\* A tree gives a preallocated node back together with all others of its block and only
\* when it is empty.
ReleasesWhole ==
    \A t \in Trees : \A a \in Address :
        a \in allocated \ allocated' /\ node[a].prealloc /\ a \in Holds(t)
            => used'[t] = {} /\ {b \in Holds(t) : node[b].prealloc /\ node[b].index = node[a].index}
                                 \cap allocated' = {}
================================================================================
