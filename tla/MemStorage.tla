------------------------------- MODULE MemStorage -------------------------------
(***************************************************************************)
(* The storage under string and vector: elements in a block of a pool, in  *)
(* the object itself while they are few (scalars only), or in memory that  *)
(* the storage does not own, until it has to grow (weak).  Each operation  *)
(* constructs, moves and destroys the elements cell by cell, so that the   *)
(* properties can tell a cell that is written over from one that is lost.  *)
(***************************************************************************)
EXTENDS Integers, Sequences, SequencesExt

CONSTANTS
    Storages,
    Values,      \* positive numbers
    Soo,         \* the elements are scalars: the small form exists, nothing is destroyed
    Small,       \* max_capacity() of the small form
    Extra,       \* cells after the last element: 1 for a string's zero, 0 for a vector
    MaxSize,     \* bound: the elements of one storage
    MaxArgument, \* bound: the elements given in one call
    Slack        \* how many cells more than asked for the pool may give

VARIABLES
    st,          \* the storages
    text         \* history: the elements that the calls have left in each

vars == <<st, text>>

\* What a cell holds if not an element: zero bytes, anything, or the trace of an error.
Zero == 0
Raw == -1
Bad == -2
Cell == Values \cup {Zero, Raw, Bad}

Weak == -1
Empty == [small |-> FALSE, used |-> 0, allocated |-> 0, block |-> 0, cells |-> <<>>, bad |-> FALSE]

Init == st = [s \in Storages |-> Empty] /\ text = [s \in Storages |-> <<>>]

--------------------------------------------------------------------------------
(* Cells: what the allocator does with elements *)

Alive(x) == ~Soo /\ x \in Values
Up(first, n) == [i \in 1 .. n |-> first + i - 1]

\* An object constructed over another, or from one that is gone, is an error.
Constructed(x, v) == IF x = Bad \/ Alive(x) \/ (~Soo /\ ~Alive(v)) THEN Bad ELSE v
Destroyed(x) == IF Soo THEN x ELSE IF Alive(x) THEN Raw ELSE Bad
Zeroed(x) == IF x = Bad \/ Alive(x) THEN Bad ELSE Zero

\* The cells with F(place, cell) in n of them; writing behind the last one is an error.
Over(c, first, n, F(_, _)) ==
    LET d == [i \in DOMAIN c |-> IF i \in first .. first + n - 1 THEN F(i - first + 1, c[i]) ELSE c[i]]
    IN  IF n > 0 /\ first + n - 1 > Len(c) THEN Append(d, Bad) ELSE d

DestroyAll(c, first, n) == Over(c, first, n, LAMBDA i, x : Destroyed(x))
ZeroAll(c, first, n) == Over(c, first, n, LAMBDA i, x : Zeroed(x))
ConstructAll(c, first, v) == Over(c, first, Len(v), LAMBDA i, x : Constructed(x, v[i]))

\* copy_rewrite: over the first used elements, and after them.
Rewritten(c, used, v) ==
    Over(c, 1, Len(v), LAMBDA i, x : Constructed(IF i <= used THEN Destroyed(x) ELSE x, v[i]))

\* One element moved to another place, and n of them, one after the other.
MoveOne(c, to, from) ==
    IF to \notin DOMAIN c THEN Append(c, Bad)
    ELSE [c EXCEPT ![to] = Constructed(@, c[from]), ![from] = Destroyed(@)]

MovedUp(c, to, from, n) ==
    IF to = from THEN c ELSE FoldLeft(LAMBDA d, i : MoveOne(d, to + i - 1, from + i - 1), c, Up(1, n))

\* move within one block, from the end that is not written over.
Moved(c, to, from, n) ==
    LET step(d, i) == MoveOne(d, to + i - 1, from + i - 1)
    IN  IF to = from THEN c ELSE FoldLeft(step, c, IF to > from THEN Reverse(Up(1, n)) ELSE Up(1, n))

--------------------------------------------------------------------------------
(* The large form; a is what the pool gives: a block, and cells beyond those asked for *)

\* A block goes back to the pool: no object may be left in it.
Spilt(c) == \E i \in DOMAIN c : c[i] = Bad \/ Alive(c[i])

DropUnused(x) ==
    IF x.allocated > 0 /\ x.allocated >= x.used
    THEN [x EXCEPT !.cells = ZeroAll(@, x.used + 1, x.allocated - x.used + Extra)] ELSE x

GrowAlloc(x, n, a) ==
    LET fresh == [i \in 1 .. n + a.more + Extra |-> Raw]
        left == DestroyAll(x.cells, 1, x.used)
    IN  [x EXCEPT !.cells = ConstructAll(fresh, 1, SubSeq(x.cells, 1, x.used)),
                  !.block = a.block, !.allocated = n + a.more,
                  !.bad = @ \/ (x.allocated > 0 /\ Spilt(left))]

LargeReserve(x, n, a) == DropUnused(GrowAlloc(x, n, a))

LargeAssign(x, v, a) ==
    LET y == IF x.allocated < Len(v) THEN LargeReserve(x, Len(v), a) ELSE x
        c == Rewritten(y.cells, y.used, v)
    IN  DropUnused([y EXCEPT !.used = Len(v),
                             !.cells = IF y.used > Len(v) THEN DestroyAll(c, Len(v) + 1, y.used - Len(v)) ELSE c])

AssignMem(x, v, block, allocated) ==
    [x EXCEPT !.cells = v, !.used = Len(v), !.block = block, !.allocated = allocated]

--------------------------------------------------------------------------------
(* The small form.  Both forms share their bytes: a null pointer and zero sizes are zeros. *)

Bytes(x) ==
    IF x.small THEN x.cells ELSE [i \in 1 .. Small |-> IF x.block = 0 THEN Zero ELSE Raw]

SmallSize(x, n) ==
    [x EXCEPT !.used = n, !.cells = IF n > 0 THEN ZeroAll(@, n + 1, Small - n) ELSE @]

SmallAssign(x, v) ==
    SmallSize([Empty EXCEPT !.small = TRUE, !.bad = x.bad, !.cells = ConstructAll(Bytes(x), 1, v)], Len(v))

SmallEmpty(x) == [Empty EXCEPT !.small = TRUE, !.bad = x.bad, !.cells = Bytes(x)]

--------------------------------------------------------------------------------
(* The storage *)

Capacity(x) == IF x.small THEN Small ELSE x.allocated
IsEmpty(x) == x.used = 0
IsWeak(x) == x.used > 0 /\ ~x.small /\ x.allocated = 0
SetSize(x, n) ==
    IF x.small THEN SmallSize(x, n)
    ELSE IF n < x.used THEN DropUnused([x EXCEPT !.used = n]) ELSE [x EXCEPT !.used = n]

\* The block stays, unless it is another's.
Cleared(x) ==
    LET c == IF x.used > 0 /\ x.allocated > 0 THEN DestroyAll(x.cells, 1, x.used) ELSE x.cells
    IN  IF x.small \/ x.allocated = 0 THEN [Empty EXCEPT !.bad = x.bad]
        ELSE IF Soo THEN SetSize([x EXCEPT !.cells = c], 0)
        ELSE [x EXCEPT !.used = 0, !.cells = c]

ClearDealloc(x) ==
    IF x.small THEN Cleared(x)
    ELSE [Empty EXCEPT !.bad = x.bad \/ (x.allocated > 0 /\ Spilt(DestroyAll(x.cells, 1, x.used)))]

Newmem(x, n, grow) == IF grow /\ 2 * Capacity(x) > n THEN 2 * Capacity(x) ELSE n

Reserved(x, n, grow, a) ==
    IF n <= Capacity(x) THEN x
    ELSE IF Soo /\ n <= Small /\ x.used <= Small
    THEN IF x.block # 0 THEN SmallAssign(x, SubSeq(x.cells, 1, x.used)) ELSE SmallEmpty(x)
    ELSE IF x.small
    THEN LargeAssign(LargeReserve([Empty EXCEPT !.bad = x.bad], Newmem(x, n, grow), a),
                     SubSeq(x.cells, 1, x.used), a)
    ELSE LargeReserve(x, Newmem(x, n, grow), a)

Assigned(x, v, a) ==
    LET n == Len(v) IN
    IF ~Soo THEN LargeAssign(x, v, a)
    ELSE IF n = 0 THEN Cleared(x)
    ELSE IF n <= Small /\ (x.small \/ IsEmpty(x)) THEN SmallAssign(x, v)
    ELSE IF n > Small THEN LargeAssign(IF x.small THEN [Empty EXCEPT !.bad = x.bad] ELSE x, v, a)
    ELSE SmallAssign([Empty EXCEPT !.bad = x.bad], v)

\* perform_move, to a storage that has been cleared.
Stolen(y, x) ==
    IF x.small THEN SmallAssign(y, SubSeq(x.cells, 1, x.used)) ELSE [x EXCEPT !.bad = @ \/ y.bad]

\* Longer by n; the calls below do this first.
Grown(x, n, a) == Reserved(x, x.used + n, TRUE, a)

Inserted(x, pos, v) ==
    [x EXCEPT !.used = @ + Len(v),
              !.cells = ConstructAll(Moved(@, pos + Len(v), pos, x.used - pos + 1), pos, v)]

\* emplace_safe makes the element behind the others and moves it into the gap.
InsertedSafe(x, pos, v) ==
    [x EXCEPT !.used = @ + 1,
              !.cells = Moved(Moved(ConstructAll(@, x.used + 2, <<v>>), pos + 1, pos, x.used - pos + 1),
                              pos, x.used + 2, 1)]

\* The elements that are replaced are destroyed and those behind them moved.
Cut(x, pos, n, m) == Moved(DestroyAll(x.cells, pos, n), pos + m, pos + n, x.used - pos - n + 1)

Erased(x, pos, n) == [x EXCEPT !.used = @ - n, !.cells = ZeroAll(Cut(x, pos, n, 0), x.used - n + 1, n)]

Replaced(x, pos, n, v) ==
    LET m == x.used - n + Len(v) IN
    [x EXCEPT !.used = m,
              !.cells = ZeroAll(ConstructAll(Cut(x, pos, n, Len(v)), pos, v), m + 1, n - Len(v))]

Filled(x, v) == SetSize([x EXCEPT !.cells = ConstructAll(@, 1, v)], Len(v))

Resized(x, n, v) ==
    SetSize([x EXCEPT !.cells =
               IF n < x.used THEN DestroyAll(@, n + 1, x.used - n)
               ELSE ConstructAll(@, x.used + 1, [i \in 1 .. n - x.used |-> v])], n)

--------------------------------------------------------------------------------
(* The calls.  A weak storage is only read, replaced or made longer: operations that shorten *)
(* it write to memory that is not its own, or reserve less than they move.                   *)

Arguments == UNION {[1 .. n -> Values] : n \in 0 .. MaxArgument}
Fresh == CHOOSE b \in 1 .. Cardinality(Storages) + 1 : \A s \in Storages : st[s].block # b
Given == [block : {Fresh}, more : 0 .. Slack]

Sets(s, x, v) == Len(v) <= MaxSize /\ st' = [st EXCEPT ![s] = x] /\ text' = [text EXCEPT ![s] = v]

\* The text is in no storage that the call changes.  (A small storage that was emptied and not
\* cleared may not be assigned a long text: assign takes its bytes for those of the large form.)
Assign(s) ==
    \E v \in Arguments \cup {text[r] : r \in Storages \ {s}}, a \in Given :
        /\ ~(st[s].small /\ st[s].used = 0 /\ Len(v) > Small)
        /\ Sets(s, Assigned(st[s], v, a), v)

AssignWeak(s) ==
    \E v \in Arguments :
        Soo /\ Len(v) > Small /\ Sets(s, AssignMem(Cleared(st[s]), v, Weak, 0), v)

EmplaceBack(s) ==
    \E v \in Values, a \in Given : Sets(s, Inserted(Grown(st[s], 1, a), st[s].used + 1, <<v>>), Append(text[s], v))

PopBack(s) ==
    /\ st[s].used > 0 /\ ~IsWeak(st[s])
    /\ Sets(s, Erased(st[s], st[s].used, 1), Front(text[s]))

Insert(s) ==
    \E v \in Arguments, pos \in 1 .. st[s].used + 1, a \in Given :
        Sets(s, Inserted(Grown(st[s], Len(v), a), pos, v), SubSeq(text[s], 1, pos - 1) \o v \o SubSeq(text[s], pos, st[s].used))

EmplaceSafe(s) ==
    \E v \in Values, pos \in 1 .. st[s].used + 1, a \in Given :
        /\ ~Soo /\ text' = [text EXCEPT ![s] = InsertAt(@, pos, v)] /\ Len(text[s]) < MaxSize
        /\ st' = [st EXCEPT ![s] = IF pos = @.used + 1 THEN Inserted(Grown(@, 1, a), pos, <<v>>)
                                   ELSE InsertedSafe(Grown(@, 2, a), pos, v)]

Erase(s) ==
    \E pos \in 1 .. st[s].used, n \in 1 .. MaxArgument :
        /\ ~IsWeak(st[s]) /\ pos + n - 1 <= st[s].used
        /\ Sets(s, Erased(st[s], pos, n), SubSeq(text[s], 1, pos - 1) \o SubSeq(text[s], pos + n, st[s].used))

Replace(s) ==
    \E pos \in 1 .. st[s].used, n \in 1 .. MaxArgument, v \in Arguments, a \in Given :
        /\ pos + n - 1 <= st[s].used /\ (IsWeak(st[s]) => n <= Len(v))
        /\ Sets(s, Replaced(Grown(st[s], Len(v) - n, a), pos, n, v),
                SubSeq(text[s], 1, pos - 1) \o v \o SubSeq(text[s], pos + n, st[s].used))

Fill(s) == \E v \in Arguments, a \in Given : (\A i, j \in DOMAIN v : v[i] = v[j]) /\ Sets(s, Filled(Reserved(Cleared(st[s]), Len(v), TRUE, a), v), v)

\* (A small storage resized to nothing keeps its bytes; a string that grows from there is not
\* terminated.)
Resize(s) ==
    \E n \in 0 .. MaxSize, v \in Values, a \in Given :
        /\ IsWeak(st[s]) => n >= st[s].used
        /\ st[s].small => n > 0
        /\ Sets(s, Resized(Reserved(st[s], n, TRUE, a), n, v),
                IF n <= st[s].used THEN SubSeq(text[s], 1, n)
                ELSE text[s] \o [i \in 1 .. n - st[s].used |-> v])

Reserve(s) ==
    \E n \in 0 .. MaxSize, a \in Given :
        (IsWeak(st[s]) => n >= st[s].used) /\ Sets(s, Reserved(st[s], n, FALSE, a), text[s])

Clear(s) == Sets(s, Cleared(st[s]), <<>>)
ShrinkToFit(s) == st[s].used = 0 /\ Sets(s, ClearDealloc(st[s]), <<>>)

\* extract: the block is the caller's, who gets a new one for a small storage.
Extract(s) == Sets(s, [Empty EXCEPT !.bad = st[s].bad], <<>>)

\* The move of a storage of the same pool, by constructor or assignment.
Move(s, r) ==
    /\ s # r
    /\ st' = [st EXCEPT ![s] = Stolen(ClearDealloc(st[s]), st[r]), ![r] = [Empty EXCEPT !.bad = st[r].bad]]
    /\ text' = [text EXCEPT ![s] = text[r], ![r] = <<>>]

Next ==
    \E s \in Storages :
        \/ Assign(s) \/ AssignWeak(s) \/ EmplaceBack(s) \/ PopBack(s) \/ Insert(s) \/ EmplaceSafe(s)
        \/ Erase(s) \/ Replace(s) \/ Fill(s) \/ Resize(s) \/ Reserve(s) \/ Clear(s) \/ ShrinkToFit(s)
        \/ Extract(s) \/ \E r \in Storages : Move(s, r)

Spec == Init /\ [][Next]_vars

--------------------------------------------------------------------------------
(* Properties *)

TypeOK ==
    /\ \A s \in Storages :
         /\ DOMAIN st[s] = DOMAIN Empty /\ st[s].small \in BOOLEAN /\ st[s].bad \in BOOLEAN
         /\ {st[s].used, st[s].allocated} \subseteq Nat /\ st[s].block \in Nat \cup {Weak}
         /\ st[s].cells \in Seq(Cell)
    /\ text \in [Storages -> Seq(Values)]

\* A storage holds what the calls have left in it, through every change of its form and block.
ContentKept == \A s \in Storages : SubSeq(st[s].cells, 1, st[s].used) = text[s]

\* A string ends with a zero, in its own memory: c_str() is data().  (The byte with the size of
\* a small string that is full is that zero.)
Terminated ==
    Extra = 1 => \A s \in Storages : LET x == st[s] IN
        (x.small /\ x.used < Small) \/ x.allocated > 0 => x.cells[x.used + 1] = Zero

\* An object is constructed in a free cell and destroyed once, and none is left behind the last
\* element or in a block that goes back; nothing is written behind a block's end.
ObjectsOnce ==
    \A s \in Storages : LET x == st[s] IN
        /\ ~x.bad /\ \A i \in DOMAIN x.cells : x.cells[i] # Bad /\ (i > x.used => ~Alive(x.cells[i]))
        /\ x.block # Weak => Len(x.cells) = IF x.small THEN Small ELSE x.allocated + (IF x.block = 0 THEN 0 ELSE Extra)
        /\ x.used <= Capacity(x) \/ IsWeak(x)

\* No block is in two storages.
BlocksOnce == \A s, r \in Storages : s # r /\ st[s].block > 0 => st[s].block # st[r].block
================================================================================
