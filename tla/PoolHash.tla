-------------------------------- MODULE PoolHash -------------------------------
(***************************************************************************)
(* custom::HashTable, the hash table of the pools (after apr_hash): chains  *)
(* of entries linked by next, a free list linked by the same field, an     *)
(* array that grows when there are more entries than its mask, copies,     *)
(* merges, and iteration with a HashIndex that outlives removals.          *)
(***************************************************************************)
EXTENDS Integers, FiniteSets, Sequences

CONSTANTS
    Tables, Keys, Values,
    Hash(_),       \* the hash of a key
    InitialMax,    \* INITIAL_MAX, one less than a power of two
    Walked,        \* bound: the tables that are iterated over
    NULL

VARIABLES
    table,    \* the tables
    walk,     \* for each table an iteration over it, or NULL
    map       \* history: what the calls have promised (MapSpec)

vars == <<table, walk, map>>

Promise == INSTANCE MapSpec WITH Maps <- Tables, Key <- Keys, Value <- Values

Array(max) == [i \in 0 .. max |-> NULL]
Bucket(k, max) == Hash(k) % (max + 1)

\* Entries are numbered in the order in which the table has taken them from its pool.
EmptyTable(max) ==
    [array |-> Array(max), max |-> max, count |-> 0, free |-> NULL, entry |-> <<>>]

Init ==
    /\ table = [t \in Tables |-> EmptyTable(InitialMax)]
    /\ walk = [t \in Tables |-> NULL]
    /\ Promise!Init

--------------------------------------------------------------------------------
(* Iteration *)

Start == [index |-> 0, self |-> NULL, next |-> NULL]

RECURSIVE Advance(_, _)

\* Mutant: next is not read before the caller has the entry.
AdvanceLate(h, it) ==
    IF it.self # NULL /\ h.entry[it.self].next # NULL
    THEN [it EXCEPT !.self = h.entry[it.self].next]
    ELSE IF it.index > h.max THEN [it EXCEPT !.self = NULL]
    ELSE Advance(h, [it EXCEPT !.self = h.array[it.index], !.index = @ + 1])

\* HashIndex::next: self is NULL when the iteration is over.
Advance(h, it) ==
    IF it.next # NULL THEN [it EXCEPT !.self = it.next, !.next = h.entry[it.next].next]
    ELSE IF it.index > h.max THEN [it EXCEPT !.self = NULL]
    ELSE Advance(h, [it EXCEPT !.next = h.array[it.index], !.index = @ + 1])

--------------------------------------------------------------------------------
(* Entries *)

RECURSIVE Chained(_, _, _), Rehash(_, _, _)

Chained(h, e, k) == IF e = NULL \/ h.entry[e].key = k THEN e ELSE Chained(h, h.entry[e].next, k)

Find(h, k) == Chained(h, h.array[Bucket(k, h.max)], k)

\* *hep = e, where hep is the link that leads to an entry, or the end of the chain.
Link(h, k, at, e) ==
    LET before == {p \in DOMAIN h.entry :
                      /\ h.entry[p].next = at /\ h.entry[p].key # NULL
                      /\ Chained(h, h.array[Bucket(k, h.max)], h.entry[p].key) = p}
    IN  IF before = {} THEN [h EXCEPT !.array[Bucket(k, h.max)] = e]
        ELSE [h EXCEPT !.entry[CHOOSE p \in before : TRUE].next = e]

\* expand_array: the entries are relinked while an index walks over the old array.
Rehash(h, it, array) ==
    IF it.self = NULL THEN [h EXCEPT !.array = array, !.max = h.max * 2 + 1]
    ELSE LET i == Bucket(h.entry[it.self].key, h.max * 2 + 1)
             moved == [h EXCEPT !.entry[it.self].next = array[i]]
         IN  Rehash(moved, Advance(moved, it), [array EXCEPT ![i] = it.self])

Expand(h) == Rehash(h, Advance(h, Start), Array(h.max * 2 + 1))

\* find_entry and set with a value
Filled(h, k, v) ==
    LET e == IF h.free # NULL THEN h.free ELSE Len(h.entry) + 1
        new == [key |-> k, val |-> v, next |-> NULL]
        freed == IF h.free # NULL THEN [h EXCEPT !.free = h.entry[e].next, !.entry[e] = new]
                 ELSE [h EXCEPT !.entry = Append(@, new)]
        linked == Link(h, k, NULL, e)
        added == [freed EXCEPT !.array = linked.array, !.count = @ + 1,
                               !.entry = [i \in DOMAIN @ |->
                                            IF i # e /\ i \in DOMAIN h.entry
                                            THEN linked.entry[i] ELSE @[i]]]
        set == IF Find(h, k) = NULL THEN added ELSE [h EXCEPT !.entry[Find(h, k)].val = v]
    IN  IF set.count > set.max THEN Expand(set) ELSE set

\* Mutant: the entry does not go to the free list.
DroppedLost(h, k) ==
    LET e == Find(h, k)
    IN  IF e = NULL THEN h
        ELSE [Link(h, k, e, h.entry[e].next) EXCEPT
                !.entry[e] = [key |-> NULL, val |-> NULL, next |-> NULL], !.count = @ - 1]

\* set with no value; what the entry held is not read again.
Dropped(h, k) ==
    LET e == Find(h, k)
        out == Link(h, k, e, h.entry[e].next)
    IN  IF e = NULL THEN h
        ELSE [out EXCEPT !.entry[e] = [key |-> NULL, val |-> NULL, next |-> h.free],
                         !.free = e, !.count = @ - 1]

RECURSIVE Cleared(_, _)

\* clear: each entry is removed while the index stands on it.
Cleared(h, it) ==
    IF it.self = NULL THEN h
    ELSE LET rest == Dropped(h, h.entry[it.self].key) IN Cleared(rest, Advance(rest, it))

RECURSIVE ChainOf(_, _)

ChainOf(h, e) == IF e = NULL THEN <<>> ELSE <<h.entry[e]>> \o ChainOf(h, h.entry[e].next)

RECURSIVE AllOf(_, _)

AllOf(h, i) == IF i > h.max THEN <<>> ELSE ChainOf(h, h.array[i]) \o AllOf(h, i + 1)

\* copy: a block of entries in the order of the array, each chain in its order.
CopyOf(h) ==
    LET all == AllOf(h, 0)
        next == [j \in DOMAIN all |->
                   IF j < Len(all) /\ Bucket(all[j].key, h.max) = Bucket(all[j + 1].key, h.max)
                   THEN j + 1 ELSE NULL]
        Starts(i) == {j \in DOMAIN all : Bucket(all[j].key, h.max) = i}
    IN  [array |-> [i \in 0 .. h.max |->
                      IF Starts(i) = {} THEN NULL
                      ELSE CHOOSE j \in Starts(i) : \A l \in Starts(i) : j <= l],
         max |-> h.max, count |-> h.count, free |-> NULL,
         entry |-> [j \in DOMAIN all |-> [all[j] EXCEPT !.next = next[j]]]]

RECURSIVE Merged(_, _, _)

\* merge: each entry goes to the front of its chain, those of the overlay unless the key is
\* there: then it gets the overlay's value, or what the merger says, which here keeps the
\* value that is there.
Merged(h, entries, merger) ==
    IF entries = <<>> THEN h
    ELSE LET n == Head(entries)
             i == Bucket(n.key, h.max)
             e == Find(h, n.key)
         IN  Merged(IF e # NULL THEN [h EXCEPT !.entry[e].val = IF merger THEN @ ELSE n.val]
                    ELSE [h EXCEPT !.entry = Append(@, [n EXCEPT !.next = h.array[i]]),
                                   !.array[i] = Len(h.entry) + 1, !.count = @ + 1],
                    Tail(entries), merger)

MergeMax(base, overlay) ==
    LET max == IF overlay.max > base.max THEN overlay.max ELSE base.max
    IN  IF base.count + overlay.count > max THEN max * 2 + 1 ELSE max

--------------------------------------------------------------------------------
(* Operations *)

Set(t, k, v) ==
    /\ walk[t] = NULL
    /\ table' = [table EXCEPT ![t] = Filled(@, k, v)]
    /\ Promise!Put(t, k, v)
    /\ UNCHANGED walk

Unset(t, k) ==
    /\ walk[t] = NULL
    /\ table' = [table EXCEPT ![t] = Dropped(@, k)]
    /\ Promise!Remove(t, k)
    /\ UNCHANGED walk

Clear(t) ==
    /\ walk[t] = NULL
    /\ table' = [table EXCEPT ![t] = Cleared(@, Advance(@, Start))]
    /\ Promise!Clear(t)
    /\ UNCHANGED walk

Copy(t, other) ==
    /\ walk[t] = NULL
    /\ table' = [table EXCEPT ![t] = CopyOf(table[other])]
    /\ Promise!Copy(t, other)
    /\ UNCHANGED walk

Merge(t, base, overlay, merger) ==
    /\ walk[t] = NULL
    /\ table' = [table EXCEPT ![t] =
                   Merged(EmptyTable(MergeMax(table[base], table[overlay])),
                          AllOf(table[base], 0) \o AllOf(table[overlay], 0), merger)]
    /\ IF merger THEN Promise!Merge(t, overlay, base) ELSE Promise!Merge(t, base, overlay)
    /\ UNCHANGED walk

\* foreach, or a loop of the caller's, which may remove the entry it stands on.
Begin(t) ==
    /\ t \in Walked /\ walk[t] = NULL
    /\ walk' = [walk EXCEPT ![t] = [at |-> Advance(table[t], Start), seen |-> <<>>, all |-> DOMAIN map[t]]]
    /\ UNCHANGED <<table, map>>

Visit(t) ==
    /\ walk[t] # NULL /\ walk[t].at.self # NULL
    /\ LET e == walk[t].at.self
           k == table[t].entry[e].key
       IN  \E remove \in BOOLEAN :
             /\ table' = IF remove THEN [table EXCEPT ![t] = Dropped(@, k)] ELSE table
             /\ IF remove THEN Promise!Remove(t, k) ELSE UNCHANGED map
             /\ walk' = [walk EXCEPT ![t].at = Advance(table'[t], @),
                                     ![t].seen = Append(@, k)]

End(t) ==
    /\ walk[t] # NULL /\ walk[t].at.self = NULL
    /\ walk' = [walk EXCEPT ![t] = NULL]
    /\ UNCHANGED <<table, map>>

Next ==
    \E t \in Tables :
        \/ \E k \in Keys : Unset(t, k) \/ \E v \in Values : Set(t, k, v)
        \/ Clear(t) \/ Begin(t) \/ Visit(t) \/ End(t)
        \/ \E other \in Tables : Copy(t, other) \/ \E merger \in BOOLEAN : Merge(t, t, other, merger)

Spec == Init /\ [][Next]_vars

--------------------------------------------------------------------------------
(* Properties *)

Live(t) == {e \in DOMAIN table[t].entry :
              table[t].entry[e].key # NULL /\ Find(table[t], table[t].entry[e].key) = e}

RECURSIVE FreeOf(_, _)

FreeOf(h, e) == IF e = NULL THEN {} ELSE {e} \cup FreeOf(h, h.entry[e].next)

TypeOK ==
    \A t \in Tables :
        LET h == table[t]
            Ref == DOMAIN h.entry \cup {NULL}
        IN  /\ h.array \in [0 .. h.max -> Ref] /\ h.free \in Ref /\ h.count \in Nat
            /\ \A e \in DOMAIN h.entry :
                 h.entry[e] \in [key : Keys \cup {NULL}, val : Values \cup {NULL}, next : Ref]

\* get returns for every key what the calls have left there, and size() counts it: growing
\* relinks every entry, a reused entry keeps nothing of its past, copies and merges link
\* their own entries.
LookupIsMap ==
    \A t \in Tables :
        /\ \A k \in Keys :
             LET e == Find(table[t], k)
             IN  IF k \in DOMAIN map[t] THEN e # NULL /\ table[t].entry[e].val = map[t][k] ELSE e = NULL
        /\ table[t].count = Cardinality(DOMAIN map[t])

\* Every entry that a table has taken from its pool is in the chain of its bucket or on the
\* free list, never on both, though both are linked by the same field.
EntriesOnce ==
    \A t \in Tables :
        LET h == table[t]
        IN  /\ Live(t) \cap FreeOf(h, h.free) = {}
            /\ Live(t) \cup FreeOf(h, h.free) = DOMAIN h.entry
            /\ Len(AllOf(h, 0)) = Cardinality(Live(t))

\* An iteration meets every entry of its start once, also when the caller or clear removes
\* the entries on the way: next is read before the entry goes to the free list.
IterationComplete ==
    \A t \in Tables : walk[t] # NULL =>
        LET seen == walk[t].seen
        IN  /\ \A i, j \in DOMAIN seen : seen[i] = seen[j] => i = j
            /\ {seen[i] : i \in DOMAIN seen} \subseteq walk[t].all
            /\ walk[t].at.self = NULL => {seen[i] : i \in DOMAIN seen} = walk[t].all

\* No table is fuller than one entry for each bucket, also after a merge, which grows once.
LoadBounded == \A t \in Tables : table[t].count <= table[t].max
================================================================================
