--------------------------- MODULE PriorityQueueSpec ---------------------------
(***************************************************************************)
(* What memory::PriorityQueue promises to its users, whatever its nodes    *)
(* and its two locks do: push puts an entry in its place, pop takes the    *)
(* most urgent one (the numerically smallest priority), clear takes all.   *)
(* Module PriorityQueue implements this specification.                     *)
(*                                                                         *)
(* An entry records, beside its priority, how it was pushed (first) and as *)
(* which push (id): with those the whole order of removal is determined.   *)
(***************************************************************************)
EXTENDS PriorityQueueParams

VARIABLES queue,       \* the entries in the queue, the most urgent first
          pushes       \* pushes so far

vars == <<queue, pushes>>

Entry == [prio : Priority, first : BOOLEAN, id : 1..MaxPushes]

Init == queue = <<>> /\ pushes = 0

Push(p, first) ==
    /\ pushes < MaxPushes
    /\ pushes' = pushes + 1
    /\ \E k \in 1..Len(queue) + 1 :
        /\ IsSlot(queue, p, first, k)
        /\ queue' = InsertedAt(queue, k,
                        [prio |-> p, first |-> first, id |-> pushes + 1])

Pop == queue # <<>> /\ queue' = Tail(queue) /\ UNCHANGED pushes

Clear == queue # <<>> /\ queue' = <<>> /\ UNCHANGED pushes

Next == \/ \E p \in Priority, first \in BOOLEAN : Push(p, first)
        \/ Pop
        \/ Clear

Spec == Init /\ [][Next]_vars

-------------------------------------------------------------------------------
TypeOK == queue \in Seq(Entry) /\ pushes \in 0..MaxPushes

\* a leaves the queue before b: by priority; among equals the entries pushed
\* with insertFirst come first, the newest of them foremost, and the others
\* follow in the order of their pushes.
Before(a, b) ==
    \/ a.prio < b.prio
    \/ /\ a.prio = b.prio
       /\ \/ a.first /\ (b.first => b.id < a.id)
          \/ ~a.first /\ ~b.first /\ a.id < b.id

\* The order of removal is the one Before defines, whatever the interleaving of
\* pushes and pops (pushNode's four ways of linking a node).
RemovalOrder == \A i, j \in 1..Len(queue) : i < j => Before(queue[i], queue[j])

===============================================================================
