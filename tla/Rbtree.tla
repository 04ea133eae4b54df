-------------------------------- MODULE Rbtree ---------------------------------
(***************************************************************************)
(* rbtree::Tree, the red-black tree under memory::map and memory::set:     *)
(* nodes with left, right and parent links, and a header in each tree that *)
(* is the root's parent and the end of every iteration.  The header's left *)
(* is the root, its parent the first node and its right the last one.      *)
(*                                                                         *)
(* A node is named by its key and a number: two trees may hold one key.    *)
(* The memory that nodes come from is in TreeNodes.                        *)
(***************************************************************************)
EXTENDS Integers, FiniteSets, Sequences

CONSTANTS
    Trees,      \* the trees, which also name their headers
    Keys,       \* the keys, numbers
    Entries,    \* bound: the keys, each with a value, that the calls insert
    HintedSize, \* bound: the size up to which a tree's calls are given hints
    Copies,     \* numbers of the nodes that may hold one key: one for each tree
    NULL

VARIABLES
    heap,    \* the links and colour of every node and header
    size,    \* _size of each tree
    map      \* history: what the calls have promised (MapSpec)

vars == <<heap, size, map>>

Values == {e[2] : e \in Entries}

Promise == INSTANCE MapSpec WITH Maps <- Trees, Key <- Keys, Value <- Values

Node == Keys \X Copies
KeyOf(n) == n[1]
Opposite(side) == IF side = "left" THEN "right" ELSE "left"

Blank(color) ==
    [left |-> NULL, right |-> NULL, parent |-> NULL, color |-> color, value |-> NULL]

Init ==
    /\ heap = [n \in Node \cup Trees |-> Blank(IF n \in Trees THEN "black" ELSE "red")]
    /\ size = [t \in Trees |-> 0]
    /\ Promise!Init

--------------------------------------------------------------------------------
(* Walking: increment is Step to the right, decrement Step to the left *)

RECURSIVE Furthest(_, _, _), Climb(_, _, _)

Furthest(h, n, side) == IF h[n][side] = NULL THEN n ELSE Furthest(h, h[n][side], side)

Climb(h, n, side) ==
    IF h[n].parent # NULL /\ h[h[n].parent][side] = n THEN Climb(h, h[n].parent, side) ELSE n

Step(h, n, side) ==
    IF h[n][side] # NULL THEN Furthest(h, h[n][side], Opposite(side))
    ELSE IF h[n].parent # NULL /\ h[h[n].parent][Opposite(side)] = n THEN h[n].parent
    ELSE h[Climb(h, n, side)].parent

First(h, t) == IF h[t].left = NULL THEN t ELSE h[t].parent

--------------------------------------------------------------------------------
(* Balance *)

IsRed(h, n) == n # NULL /\ h[n].color = "red"
Paint(h, n, color) == [h EXCEPT ![n].color = color]

\* n takes p's place and p becomes n's child on the given side: RotateLeft and RotateRight.
Rotate(h, head, n, p, side) ==
    LET inner == h[n][side]
        up    == h[p].parent
        above == IF p = h[head].left THEN head ELSE up
        link  == IF above # head /\ h[above].right = p THEN "right" ELSE "left"
        turned == [h EXCEPT ![above][link] = n, ![n].parent = up, ![n][side] = p,
                            ![p].parent = n, ![p][Opposite(side)] = inner]
    IN  IF inner = NULL THEN turned ELSE [turned EXCEPT ![inner].parent = p]

\* Mutant: the sibling's inner red child is left where it is.
AsItIs(h, head, s, near, side) == h

\* A red child of the sibling s on n's side, if the other is black, takes the sibling's place.
OuterRed(h, head, s, near, side) ==
    IF IsRed(h, h[s][Opposite(side)]) \/ ~IsRed(h, near) THEN h
    ELSE Rotate([h EXCEPT ![s].color = "red", ![near].color = "black"],
                head, near, s, Opposite(side))

RECURSIVE FixInsert(_, _, _), FixRemove(_, _, _)

\* NodeBase::insert, from a red node n.
FixInsert(h, head, n) ==
    LET p == h[n].parent
        g == h[p].parent
        side  == IF p = h[g].left THEN "left" ELSE "right"
        uncle == h[g][Opposite(side)]
        bent  == n = h[p][Opposite(side)]
        straight == IF bent THEN Rotate(h, head, n, p, side) ELSE h
        top   == IF bent THEN n ELSE p
        low   == IF bent THEN p ELSE n
    IN  IF n = h[head].left \/ ~IsRed(h, p) THEN Paint(h, h[head].left, "black")
        ELSE IF IsRed(h, uncle)
        THEN FixInsert([h EXCEPT ![p].color = "black", ![uncle].color = "black",
                                 ![g].color = "red"], head, g)
        ELSE FixInsert(Rotate([straight EXCEPT ![top].color = "black", ![g].color = "red"],
                              head, top, g, Opposite(side)), head, low)

\* NodeBase::remove: n's subtree lacks one black node.
FixRemove(h, head, n) ==
    LET p    == h[n].parent
        side == IF n = h[p].left THEN "left" ELSE "right"
        far  == Opposite(side)
        h1   == IF ~IsRed(h, h[p][far]) THEN h
                ELSE Rotate([h EXCEPT ![p].color = "red", ![h[p][far]].color = "black"],
                            head, h[p][far], p, side)
        s    == h1[p][far]
        near == h1[s][side]
        h2   == OuterRed(h1, head, s, near, side)
        s2   == h2[p][far]
        h3   == [h2 EXCEPT ![s2].color = h2[p].color, ![p].color = "black"]
        h4   == IF h3[s2][far] = NULL THEN h3 ELSE Paint(h3, h3[s2][far], "black")
    IN  IF n = h[head].left \/ IsRed(h, n) \/ s = NULL THEN
            Paint(IF n = h[head].left \/ IsRed(h, n) THEN h ELSE h1, n, "black")
        ELSE IF IsRed(h1, s) \/ IsRed(h1, near) \/ IsRed(h1, h1[s][far]) THEN
            Paint(Rotate(h4, head, s2, p, side), n, "black")
        ELSE IF IsRed(h1, p) THEN
            [h1 EXCEPT ![s].color = "red", ![p].color = "black", ![n].color = "black"]
        ELSE FixRemove(Paint(h1, s, "red"), head, p)

--------------------------------------------------------------------------------
(* Where a key belongs *)

RECURSIVE Search(_, _, _, _, _)

\* getInsertPositionUnique_search: from node n, whose parent is p.
Search(h, n, p, side, k) ==
    IF n = NULL THEN [found |-> NULL, parent |-> p, side |-> side]
    ELSE IF k = KeyOf(n) THEN [found |-> n, parent |-> n, side |-> side]
    ELSE LET next == IF k < KeyOf(n) THEN "left" ELSE "right"
         IN  Search(h, h[n][next], n, next, k)

Under(h, n, side, k) == Search(h, h[n][side], n, side, k)
Found(n) == [found |-> n, parent |-> n, side |-> "left"]

\* getInsertPositionUnique_tryHint: the hint decides when the key lies next to it.
HintDecides(h, t, hint, k) ==
    /\ hint \notin {NULL, t, h[t].parent}
    /\ \/ k = KeyOf(hint)
       \/ k < KeyOf(hint) /\ KeyOf(Step(h, hint, "left")) < k
       \/ /\ k > KeyOf(hint)
          /\ \/ Step(h, hint, "right") = t
             \/ k < KeyOf(Step(h, hint, "right"))

\* getInsertPositionUnique: the root, the hint, the first and the last node, then a search.
Position(h, t, hint, k) ==
    LET first == h[t].parent
        last  == h[t].right
    IN  CASE size[t] = 0 -> [found |-> NULL, parent |-> NULL, side |-> "left"]
          [] size[t] # 0 /\ HintDecides(h, t, hint, k) ->
                IF k = KeyOf(hint) THEN Found(hint)
                ELSE Under(h, hint, IF k < KeyOf(hint) THEN "left" ELSE "right", k)
          [] OTHER ->
                IF k = KeyOf(first) THEN Found(first)
                ELSE IF k < KeyOf(first) THEN [found |-> NULL, parent |-> first, side |-> "left"]
                ELSE IF k = KeyOf(last) THEN Found(last)
                ELSE IF k > KeyOf(last) THEN [found |-> NULL, parent |-> last, side |-> "right"]
                ELSE Search(h, h[t].left, NULL, "left", k)

RECURSIVE Bound(_, _, _, _)

\* lower_bound_ptr: the last node at which the search went left.
Bound(h, n, saved, k) ==
    IF n = NULL THEN saved
    ELSE IF KeyOf(n) < k THEN Bound(h, h[n].right, saved, k) ELSE Bound(h, h[n].left, n, k)

LowerBound(h, t, k) ==
    LET n == Bound(h, h[t].left, NULL, k) IN IF n = NULL THEN t ELSE n

--------------------------------------------------------------------------------
(* Operations *)

RECURSIVE Subtree(_, _)

Subtree(h, n) == IF n = NULL THEN {} ELSE {n} \cup Subtree(h, h[n].left) \cup Subtree(h, h[n].right)

NodesOf(h, t) == Subtree(h, h[t].left)

Fresh(k) == CHOOSE n \in Node : KeyOf(n) = k /\ heap[n].parent = NULL

\* makeInsert: the end of the tree that n becomes is known from where it is put.
MakeInsert(h, t, n, at, v) ==
    LET p  == IF at.parent = NULL THEN t ELSE at.parent
        h1 == [h EXCEPT ![n] = [Blank("red") EXCEPT !.parent = p, !.value = v],
                        ![p][at.side] = n]
        h2 == IF p = t THEN [h1 EXCEPT ![t].parent = n, ![t].right = n]
              ELSE IF at.side = "left" /\ p = h[t].parent THEN [h1 EXCEPT ![t].parent = n]
              ELSE IF at.side = "right" /\ p = h[t].right THEN [h1 EXCEPT ![t].right = n]
              ELSE h1
    IN  FixInsert(h2, t, n)

Put(t, hint, k, v) ==
    LET at == Position(heap, t, hint, k)
    IN  IF at.found = NULL
        THEN /\ heap' = MakeInsert(heap, t, Fresh(k), at, v)
             /\ size' = [size EXCEPT ![t] = @ + 1]
        ELSE heap' = [heap EXCEPT ![at.found].value = v] /\ UNCHANGED size

Hints(t) == {NULL} \cup (IF size[t] <= HintedSize THEN NodesOf(heap, t) \cup {t} ELSE {})

\* insert_or_assign and map's emplace: a key that is there gets the new value.
InsertOrAssign(t, hint, k, v) == Put(t, hint, k, v) /\ Promise!Put(t, k, v)

\* try_emplace: a key that is there keeps its value.
TryEmplace(t, hint, k, v) ==
    LET found == Position(heap, t, hint, k).found
    IN  /\ IF found = NULL THEN Put(t, hint, k, v) ELSE UNCHANGED <<heap, size>>
        /\ Promise!Add(t, k, v)

\* The last step of deleteNode: y, unlinked, takes z's place, so that no value moves.
Replace(h, z, y) ==
    LET old == h[z]
        h1 == [h EXCEPT ![y] = [old EXCEPT !.value = h[y].value,
                                           !.left  = IF @ = y THEN NULL ELSE @,
                                           !.right = IF @ = y THEN NULL ELSE @],
                        ![old.parent][IF h[old.parent].left = z THEN "left" ELSE "right"] = y]
        h2 == IF old.left \in {NULL, y} THEN h1 ELSE [h1 EXCEPT ![old.left].parent = y]
    IN  IF old.right \in {NULL, y} THEN h2 ELSE [h2 EXCEPT ![old.right].parent = y]

Unlink(h, y, x) ==
    LET p == h[y].parent
    IN  [h EXCEPT ![p][IF h[p].left = y THEN "left" ELSE "right"] = x]

\* The header's ends, when z is one of them and has at most one child.
Ends(h, t, z) ==
    LET Link(n) == IF n = t THEN NULL ELSE n
        h1 == IF z # h[t].right THEN h
              ELSE [h EXCEPT ![t].right = IF z = h[t].parent THEN NULL ELSE Link(Step(h, z, "left"))]
    IN  IF z # h[t].parent THEN h1
        ELSE [h1 EXCEPT ![t].parent = Link(Step(h1, z, "right"))]

\* deleteNode: y leaves its place, z the tree; x is y's only child.
DeleteNode(h, t, z) ==
    LET inner == h[z].left # NULL /\ h[z].right # NULL
        y  == IF inner THEN Furthest(h, h[z].left, "right") ELSE z
        x  == IF h[y].left # NULL THEN h[y].left ELSE h[y].right
        h1 == IF inner THEN h ELSE Ends(h, t, z)
        Placed(g) == IF y = z THEN g ELSE Replace(g, z, y)
        leaf  == Placed(Unlink(IF IsRed(h1, y) THEN h1 ELSE FixRemove(h1, t, y), y, NULL))
        h2    == Placed(Unlink([h1 EXCEPT ![x].parent = h1[y].parent], y, x))
        child == IF y # z /\ ~IsRed(h2, y) THEN FixRemove(h2, t, x) ELSE Paint(h2, x, "black")
    IN  [(IF x = NULL THEN leaf ELSE child) EXCEPT ![z] = Blank("red")]

\* erase of a key (erase_unique) and of an iterator
Erase(t, k) ==
    LET found == Search(heap, heap[t].left, NULL, "left", k).found
    IN  /\ found # NULL
        /\ heap' = DeleteNode(heap, t, found)
        /\ size' = [size EXCEPT ![t] = @ - 1]
        /\ Promise!Remove(t, k)

Emptied(h, t) ==
    LET gone == NodesOf(h, t)
    IN  [n \in DOMAIN h |-> IF n = t THEN Blank("black") ELSE IF n \in gone THEN Blank("red") ELSE h[n]]

Clear(t) ==
    /\ heap[t].left # NULL
    /\ heap' = Emptied(heap, t) /\ size' = [size EXCEPT ![t] = 0]
    /\ Promise!Clear(t)

\* clone: a new node for each of the other's; the header's ends are mapped on the way.
CopyAssign(t, other) ==
    LET cleared == Emptied(heap, t)
        old  == NodesOf(heap, other)
        twin == [n \in old |-> CHOOSE m \in Node : KeyOf(m) = KeyOf(n) /\ m \notin old]
        Twin(n) == IF n \in old THEN twin[n] ELSE IF n = other THEN t ELSE n
        copies == {twin[n] : n \in old} \cup {t}
        Source(m) == IF m = t THEN other ELSE CHOOSE n \in old : twin[n] = m
        Twinned(r) == [r EXCEPT !.left = Twin(@), !.right = Twin(@), !.parent = Twin(@)]
    IN  /\ t # other
        /\ heap' = [n \in DOMAIN heap |->
                       IF n \in copies THEN Twinned(heap[Source(n)]) ELSE cleared[n]]
        /\ size' = [size EXCEPT ![t] = size[other]]
        /\ Promise!Copy(t, other)

\* Move assignment, and on an empty tree the move constructor: the other's header is
\* taken over and the root linked to it.
MoveAssign(t, other) ==
    LET root  == heap[other].left
        taken == [Emptied(heap, t) EXCEPT ![t] = heap[other], ![other] = Blank("black")]
    IN  /\ t # other
        /\ heap' = IF root = NULL THEN taken ELSE [taken EXCEPT ![root].parent = t]
        /\ size' = [size EXCEPT ![t] = size[other], ![other] = 0]
        /\ Promise!Move(t, other)

Next ==
    \/ \E t \in Trees, e \in Entries : \E hint \in Hints(t) :
            InsertOrAssign(t, hint, e[1], e[2]) \/ TryEmplace(t, hint, e[1], e[2])
    \/ \E t \in Trees, k \in Keys : Erase(t, k)
    \/ \E t \in Trees : Clear(t)
    \/ \E t, other \in Trees : CopyAssign(t, other) \/ MoveAssign(t, other)

Spec == Init /\ [][Next]_vars

--------------------------------------------------------------------------------
(* Properties *)

TypeOK ==
    /\ heap \in [Node \cup Trees ->
                   [left : Node \cup {NULL}, right : Node \cup {NULL},
                    parent : Node \cup Trees \cup {NULL}, color : {"red", "black"},
                    value : Values \cup {NULL}]]
    /\ size \in [Trees -> 0 .. Cardinality(Keys)]

RECURSIVE Walk(_, _, _, _)

\* The nodes met from n on, in the direction of side, until t is reached.
Walk(t, n, side, fuel) ==
    IF n = t \/ n = NULL \/ fuel = 0 THEN <<n>>
    ELSE <<n>> \o Walk(t, Step(heap, n, side), side, fuel - 1)

\* Iterating from begin() to end() and back from end() meets the promised entries, in the
\* order of their keys, and stops at the tree's own header: insertion, the removal that
\* moves another node into the place of the removed one, rotations, copies and moves keep
\* all links that increment and decrement follow.
IteratesMap ==
    \A t \in Trees :
        LET w == Walk(t, First(heap, t), "right", Cardinality(Node))
            n == Len(w) - 1
        IN  /\ w[n + 1] = t /\ n = size[t]
            /\ {KeyOf(w[i]) : i \in 1 .. n} = DOMAIN map[t]
            /\ \A i \in 1 .. n : heap[w[i]].value = map[t][KeyOf(w[i])]
            /\ \A i \in 1 .. n - 1 : KeyOf(w[i]) < KeyOf(w[i + 1])
            /\ n > 0 => Walk(w[1], Step(heap, t, "left"), "left", n) =
                           [i \in 1 .. n |-> w[n + 1 - i]]

RECURSIVE BlackHeight(_)

\* The black nodes on a path down to a leaf, -1 if paths differ or a red node has a red child.
BlackHeight(n) ==
    IF n = NULL THEN 0
    ELSE LET l == BlackHeight(heap[n].left)
             r == BlackHeight(heap[n].right)
         IN  IF \/ l # r
                \/ l = -1
                \/ IsRed(heap, n) /\ (IsRed(heap, heap[n].left) \/ IsRed(heap, heap[n].right))
             THEN -1 ELSE IF IsRed(heap, n) THEN l ELSE l + 1

\* TreeDebug::validate: a black root, no red child of a red node, as many black nodes on
\* every path, after any sequence of insertions and removals.
Balanced ==
    \A t \in Trees : ~IsRed(heap, heap[t].left) /\ BlackHeight(heap[t].left) >= 0

\* A node's children and a tree's root link back to it, and the header knows the first and
\* the last node: the removal sets the ends before it rebalances, a copy maps them to its
\* own nodes, a move takes them over.
LinksAgree ==
    \A t \in Trees :
        LET nodes == NodesOf(heap, t)
        IN  /\ \A n \in nodes \cup {t}, side \in {"left", "right"} :
                  heap[n][side] # NULL /\ (n = t => side = "left") => heap[heap[n][side]].parent = n
            /\ IF nodes = {} THEN heap[t].parent = NULL /\ heap[t].right = NULL
               ELSE /\ heap[t].parent = Furthest(heap, heap[t].left, "left")
                    /\ heap[t].right = Furthest(heap, heap[t].left, "right")
            /\ \A other \in Trees \ {t} : nodes \cap NodesOf(heap, other) = {}

\* Whatever hint is given, a key is found exactly if it is there, and lower_bound gives the
\* first node that is not less: the shortcuts by hint, first and last node agree with the
\* search from the root.
HintsAgree ==
    \A t \in Trees, k \in Keys :
        LET nodes == NodesOf(heap, t)
            least == {n \in nodes : KeyOf(n) >= k /\ \A m \in nodes : KeyOf(m) >= k => KeyOf(n) <= KeyOf(m)}
        IN  /\ \A hint \in Hints(t) :
                  {Position(heap, t, hint, k).found} \ {NULL} = {n \in nodes : KeyOf(n) = k}
            /\ {LowerBound(heap, t, k)} = IF least = {} THEN {t} ELSE least
================================================================================
