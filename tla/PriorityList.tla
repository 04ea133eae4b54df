----------------------------- MODULE PriorityList -----------------------------
(***************************************************************************)
(* The order memory::PriorityQueue keeps (common/memory/                   *)
(* SPMemPriorityQueue.h): a list of entries by ascending priority, in      *)
(* which a new entry is placed behind the entries of its own priority, or  *)
(* before them when it is pushed with insertFirst.  Pure operators, shared *)
(* by the queue's own modules and by the task queues built on it.          *)
(*                                                                         *)
(* An entry is a record with a field prio; the other fields are up to the  *)
(* module that uses the list.                                              *)
(***************************************************************************)
EXTENDS Integers, Sequences

\* Mutant: equals are ordered the other way round.
EqualsSwapped(e, p, first) == IF first THEN e.prio <= p ELSE e.prio < p

\* The entry e stays ahead of a new one of priority p.
StaysAhead(e, p, first) == IF first THEN e.prio < p ELSE e.prio <= p

\* k is a place in s where an entry of priority p belongs.
IsSlot(s, p, first, k) ==
    /\ k \in 1..Len(s) + 1
    /\ \A i \in 1..Len(s) : StaysAhead(s[i], p, first) <=> i < k

\* s with e put at index k, what stood there and behind it moved up by one.
InsertedAt(s, k, e) ==
    [i \in 1..Len(s) + 1 |->
        IF i < k THEN s[i] ELSE IF i = k THEN e ELSE s[i - 1]]

\* The elements of s that are in S, where they come before all others.
Leading(s, S) == [i \in {j \in DOMAIN s : s[j] \in S} |-> s[i]]

===============================================================================
