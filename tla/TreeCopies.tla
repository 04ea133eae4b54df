------------------------------ MODULE TreeCopies -------------------------------
(***************************************************************************)
(* TreeNodes with copies and moves between trees: the header is copied or   *)
(* taken over as a whole, its counts of nodes and blocks with it, while the *)
(* chain _tmp stays where it is.                                           *)
(***************************************************************************)
EXTENDS TreeNodes

\* clone: clear, allocateTmp for as many nodes as the other has, the other's header, then
\* allocateNode for each node.
CopyAssign(t, other) ==
    \E s \in Orders(used[t]) :
        LET cleared == Destroyed(t, tmp[t], s)
            count == size[other]
            index == header[t].index + 1
            first == CHOOSE a \in Address :
                        LET free == Address \ (allocated \ cleared.freed)
                        IN  a .. a + count - 1 \subseteq free
            block == [i \in 1 .. count |-> first + i - 1]
        IN  /\ t # other /\ count > 0 /\ index <= MaxIndex
            /\ \E a \in Address : a .. a + count - 1 \subseteq Address \ (allocated \ cleared.freed)
            /\ used' = [used EXCEPT ![t] = Range(block)]
            /\ tmp' = [tmp EXCEPT ![t] = cleared.chain]
            /\ size' = [size EXCEPT ![t] = count]
            /\ header' = [header EXCEPT ![t] = [header[other] EXCEPT !.size = @ - count]]
            /\ node' = [a \in Address |->
                          IF a \in Range(block) THEN [prealloc |-> TRUE, index |-> index] ELSE node[a]]
            /\ allocated' = (allocated \ cleared.freed) \cup Range(block)

\* operator= of a tree that is moved from.
MoveAssign(t, other) ==
    \E s \in Orders(used[t]) :
        LET cleared == Destroyed(t, tmp[t], s)
        IN  /\ t # other
            /\ used' = [used EXCEPT ![t] = used[other], ![other] = {}]
            /\ tmp' = [tmp EXCEPT ![t] = cleared.chain]
            /\ size' = [size EXCEPT ![t] = size[other], ![other] = 0]
            /\ header' = [header EXCEPT ![t] = header[other], ![other] = Flag]
            /\ allocated' = allocated \ cleared.freed
            /\ UNCHANGED node

CopiesNext == Next \/ \E t, other \in Trees : CopyAssign(t, other) \/ MoveAssign(t, other)

CopiesSpec == Init /\ [][CopiesNext]_vars
================================================================================
