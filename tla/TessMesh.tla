-------------------------------- MODULE TessMesh --------------------------------
(***************************************************************************)
(* The tessellator's mesh of half-edges: contours that several cursors     *)
(* build in turn, the removal of degenerate edges when one is closed, the  *)
(* edges that the sweep adds and splits, and the allocator of edges and    *)
(* vertexes.  Where the sweep finds work is geometry: here it may connect  *)
(* any two corners of a face and split any two edges.                      *)
(***************************************************************************)
EXTENDS Integers, FiniteSets, Sequences, SequencesExt

CONSTANTS
    Cursors,
    Points,         \* coordinates, numbers
    Crossings,      \* the points at which edges may cross
    Tolerance,      \* _mathTolerance
    Edges,          \* bound: the number of preallocated edges and vertexes
    MaxPushes,      \* bound: pushes of one cursor
    Reserved,       \* bound: edges that the sweep leaves on the free list
    NULL

VARIABLES
    mesh,       \* the half-edges, the vertexes, _vertexes and the free lists
    cursor,     \* edge, count and closed of each cursor
    sweeping,   \* prepare has begun
    pushed      \* history: the points that each cursor has pushed

vars == <<mesh, cursor, sweeping, pushed>>

HalfEdge == (1 .. Edges) \X {"left", "right"}
Left(e) == <<e, "left">>
Sym(h) == <<h[1], IF h[2] = "left" THEN "right" ELSE "left">>

VertEq(p, q) == p - q \in -Tolerance .. Tolerance

\* preallocate has been called.
Init ==
    /\ mesh = [next |-> [h \in HalfEdge |-> NULL],     \* _originNext
               left |-> [h \in HalfEdge |-> NULL],     \* _leftNext
               at |-> [h \in HalfEdge |-> NULL],       \* vertex, an index in _vertexes
               pos |-> [h \in HalfEdge |-> NULL],      \* origin
               edge |-> [v \in 1 .. Edges |-> NULL],   \* Vertex::_edge
               idx |-> [v \in 1 .. Edges |-> NULL],    \* Vertex::_uniqueIdx
               verts |-> <<>>,
               freeE |-> [i \in 1 .. Edges |-> i], freeV |-> [i \in 1 .. Edges |-> i]]
    /\ cursor = [c \in Cursors |-> [edge |-> NULL, count |-> 0, closed |-> FALSE]]
    /\ sweeping = FALSE /\ pushed = [c \in Cursors |-> <<>>]

--------------------------------------------------------------------------------
(* Vertexes and edges *)

\* makeVertex(eOrig) for the first half of a new edge.
MakeVertex(m, h, p) ==
    LET v == Head(m.freeV)
        i == Len(m.verts) + 1
    IN  [m EXCEPT !.freeV = Tail(@), !.verts = Append(@, v), !.idx[v] = i, !.edge[v] = h,
                  !.at[h] = i, !.pos[h] = p]

ReleaseVertex(m, i) ==
    LET v == m.verts[i]
    IN  IF v = NULL THEN m
        ELSE [m EXCEPT !.verts[i] = NULL, !.freeV = <<v>> \o @, !.edge[v] = NULL, !.idx[v] = NULL]

ReleaseEdge(m, h) ==
    LET Gone(f) == [f EXCEPT ![h] = NULL, ![Sym(h)] = NULL]
    IN  [m EXCEPT !.freeE = <<h[1]>> \o @, !.next = Gone(@), !.left = Gone(@), !.at = Gone(@),
                  !.pos = Gone(@)]

\* The last entries of _vertexes go as far as they are null.
TrimVertexes(m) ==
    LET last == {i \in DOMAIN m.verts : m.verts[i] # NULL}
    IN  [m EXCEPT !.verts = SubSeq(@, 1, IF last = {} THEN 0 ELSE CHOOSE i \in last : \A j \in last : j <= i)]

\* A vertex, one edge that is its own neighbour on both sides.
MakeEdgeLoop(m, p) ==
    LET a == Left(Head(m.freeE))
        b == Sym(a)
        m1 == MakeVertex([m EXCEPT !.freeE = Tail(@)], a, p)
    IN  [m1 EXCEPT !.at[b] = m1.at[a], !.pos[b] = p,
                   !.left[a] = a, !.next[a] = b, !.left[b] = b, !.next[b] = a]

\* splitEdgeLoops: edge a ends at the vertex (i, p), where c goes on.
SplitEdgeLoops(m, a, c, i, p) ==
    LET b == Sym(a)
        d == Sym(c)
        e == m.left[a]
        g == m.next[b]
    IN  [m EXCEPT !.at[d] = m.at[b], !.pos[d] = m.pos[b], !.at[b] = i, !.pos[b] = p,
                  !.at[c] = i, !.pos[c] = p,
                  !.next[e] = d, !.next[d] = g, !.next[c] = b, !.next[b] = c,
                  !.left[a] = c, !.left[c] = e, !.left[Sym(g)] = d, !.left[d] = b]

\* Mutant: the edge before the one that was joined keeps its face.
JoinOneSide(m, a, e) ==
    [m EXCEPT !.next[e] = Sym(a), !.next[Sym(a)] = m.next[e], !.left[a] = e]

\* joinEdgeLoops: the end of a joins the ring of half-edge e, behind e.
JoinEdgeLoops(m, a, e) ==
    LET b == Sym(a)
        g == m.next[e]
    IN  [m EXCEPT !.next[e] = b, !.next[b] = g, !.left[a] = e, !.left[Sym(g)] = b]

\* removeEdge: the rings of its two ends become one; the second value is _originNext of the
\* half-edge that was before its end's.
RemoveEdge(m, e) ==
    LET s == Sym(e)
        l1 == [m.left EXCEPT ![Sym(m.next[e])] = m.left[e]]
        l2 == [l1 EXCEPT ![Sym(m.next[s])] = l1[s]]
        n1 == [m.next EXCEPT ![m.left[s]] = m.next[s]]
        n2 == [n1 EXCEPT ![m.left[e]] = n1[e]]
    IN  [mesh |-> ReleaseEdge([m EXCEPT !.left = l2, !.next = n2], e), ring |-> n2[m.left[e]]]

--------------------------------------------------------------------------------
(* Contours *)

PushVertex(c, p) ==
    LET e == cursor[c].edge
        m1 == MakeVertex([mesh EXCEPT !.freeE = Tail(@)], Left(Head(mesh.freeE)), p)
    IN  /\ ~sweeping /\ ~cursor[c].closed
        /\ e # NULL => ~VertEq(mesh.pos[Sym(e)], p)
        /\ Len(pushed[c]) < MaxPushes /\ mesh.freeE # <<>>
        /\ mesh' = IF e = NULL THEN MakeEdgeLoop(mesh, p)
                   ELSE SplitEdgeLoops(m1, e, Left(Head(mesh.freeE)), Len(m1.verts), p)
        /\ cursor' = [cursor EXCEPT ![c].edge = IF e = NULL THEN Left(Head(mesh.freeE)) ELSE e,
                                    ![c].count = @ + 1]
        /\ pushed' = [pushed EXCEPT ![c] = Append(@, p)]
        /\ UNCHANGED sweeping

\* A face of one or two edges is released with its vertexes.
ReleaseFace(m, e) ==
    LET l == m.left[e]
        m1 == IF l = e THEN m
              ELSE ReleaseEdge(ReleaseVertex(ReleaseVertex(m, m.at[l]), m.at[Sym(l)]), l)
    IN  ReleaseEdge(ReleaseVertex(ReleaseVertex(m1, m1.at[e]), m1.at[Sym(e)]), e)

RECURSIVE Clean(_, _, _, _)

\* removeDegenerateEdges, from edge e until end: an edge whose ends are equal is removed
\* with its first vertex, a face of less than three edges altogether.
Clean(m, e, end, count) ==
    LET equal == VertEq(m.pos[e], m.pos[Sym(e)]) /\ m.left[m.left[e]] # e
        cut   == RemoveEdge(m, e)
        m1 == IF ~equal THEN m
              ELSE ReleaseVertex([cut.mesh EXCEPT !.edge[m.verts[m.at[Sym(e)]]] = cut.ring], m.at[e])
        e1 == IF equal THEN m.left[e] ELSE e
        end1 == IF equal /\ end = e THEN e1 ELSE end
        count1 == IF equal THEN count - 1 ELSE count
    IN  IF m1.left[m1.left[e1]] = e1
        THEN [mesh |-> ReleaseFace(m1, e1), edge |-> NULL,
              count |-> count1 - IF m1.left[e1] = e1 THEN 1 ELSE 2]
        ELSE IF m1.left[e1] = end1 THEN [mesh |-> m1, edge |-> end1, count |-> count1]
        ELSE Clean(m1, m1.left[e1], end1, count1)

\* closeContour; a cursor that has pushed nothing must not be closed, it has no edge.
CloseContour(c) ==
    LET e == cursor[c].edge
        cleaned == Clean(mesh, e, e, cursor[c].count)
    IN  /\ ~sweeping /\ ~cursor[c].closed /\ e # NULL
        /\ mesh' = IF cleaned.edge = NULL THEN TrimVertexes(cleaned.mesh) ELSE cleaned.mesh
        /\ cursor' = [cursor EXCEPT ![c] = [edge |-> cleaned.edge, count |-> cleaned.count, closed |-> TRUE]]
        /\ UNCHANGED <<sweeping, pushed>>

--------------------------------------------------------------------------------
(* The sweep *)

Live == {h \in HalfEdge : h[1] \notin ToSet(mesh.freeE)}

RECURSIVE FaceFrom(_, _, _)

\* The half-edges of a face from h on until end: foreachOnFace.
FaceFrom(m, h, end) == IF m.left[h] = end THEN <<h>> ELSE <<h>> \o FaceFrom(m, m.left[h], end)
Face(m, h) == FaceFrom(m, h, h)

Prepare ==
    /\ ~sweeping /\ \A c \in Cursors : cursor[c].edge # NULL => cursor[c].closed
    /\ sweeping' = TRUE
    /\ UNCHANGED <<mesh, cursor, pushed>>

\* connectEdges: a new edge from the end of a to the origin of b cuts their face in two.
ConnectEdges(a, b) ==
    LET c == Left(Head(mesh.freeE))
        d == Sym(c)
        before == Sym(mesh.next[b])
        after == mesh.left[a]
    IN  /\ sweeping /\ Len(mesh.freeE) > Reserved
        /\ b \in ToSet(Face(mesh, a)) \ {mesh.left[a]}
        /\ mesh' = [mesh EXCEPT !.freeE = Tail(@),
                      !.at[c] = mesh.at[Sym(a)], !.pos[c] = mesh.pos[Sym(a)],
                      !.at[d] = mesh.at[b], !.pos[d] = mesh.pos[b],
                      !.left[before] = d, !.left[d] = after, !.left[c] = b, !.left[a] = c,
                      !.next[c] = Sym(a), !.next[after] = c, !.next[d] = Sym(before), !.next[b] = d]
        /\ UNCHANGED <<cursor, sweeping, pushed>>

\* The vertex where edge a ended keeps a half-edge of its own when a is split.
KeepEdge(m, i, a, c) ==
    IF m.edge[m.verts[i]] = Sym(a) THEN [m EXCEPT !.edge[m.verts[i]] = Sym(c)] ELSE m

\* splitEdge: a and b get a common vertex at p.  Their ends must have vertexes.
SplitEdge(a, b, p) ==
    LET c == Left(mesh.freeE[1])
        d == Left(mesh.freeE[2])
        m1 == MakeVertex([mesh EXCEPT !.freeE = Tail(Tail(@))], c, p)
        i  == Len(m1.verts)
        m2 == KeepEdge(SplitEdgeLoops(m1, a, c, i, p), mesh.at[Sym(a)], a, c)
        m3 == SplitEdgeLoops(m2, b, d, i, p)
        m4 == JoinEdgeLoops(JoinEdgeLoops(m3, b, c), Sym(d), Sym(a))
    IN  /\ sweeping /\ Len(mesh.freeE) > Reserved + 1
        /\ a[1] # b[1]
        /\ \A h \in {a, b} : mesh.verts[mesh.at[Sym(h)]] # NULL
        /\ mesh' = KeepEdge(m4, m2.at[Sym(b)], b, d)
        /\ UNCHANGED <<cursor, sweeping, pushed>>

Next ==
    \/ \E c \in Cursors : CloseContour(c) \/ \E p \in Points : PushVertex(c, p)
    \/ Prepare
    \/ \E a, b \in Live : ConnectEdges(a, b) \/ \E p \in Crossings : SplitEdge(a, b, p)

Spec == Init /\ [][Next]_vars

--------------------------------------------------------------------------------
(* Properties *)

TypeOK ==
    /\ \A h \in HalfEdge :
         IF h \in Live THEN /\ {mesh.next[h], mesh.left[h]} \subseteq HalfEdge
                            /\ mesh.at[h] \in DOMAIN mesh.verts \/ mesh.verts = <<>>
                            /\ mesh.pos[h] \in Points \cup Crossings
         ELSE mesh.next[h] = NULL /\ mesh.left[h] = NULL
    /\ \A c \in Cursors : cursor[c].edge \in Live \cup {NULL} /\ cursor[c].count \in Nat

\* The half-edge before another around its origin and around its face is found by _leftNext
\* and _originNext of the other half: getOriginPrev and getLeftLoopPrev.  Every step that
\* adds, removes, splits or joins edges keeps both rings closed, and no link leads to an
\* edge that has been released.
RingsAgree ==
    \A h \in Live : /\ mesh.left[Sym(h)] \in Live /\ mesh.next[mesh.left[Sym(h)]] = h
                    /\ mesh.next[h] \in Live /\ mesh.left[Sym(mesh.next[h])] = h

\* A contour's face is what its cursor has pushed, in the opposite direction and without
\* the first point if the last one is equal to it, whatever the other cursors do in
\* between; a face of less than three edges is nothing.
Corners(c) ==
    LET p == pushed[c]
        closing == cursor[c].closed /\ Len(p) > 2 /\ VertEq(p[1], p[Len(p)])
    IN  (IF closing THEN <<>> ELSE <<p[1]>>) \o Reverse(Tail(p))
ContourKept ==
    ~sweeping =>
        \A c \in Cursors :
            /\ pushed[c] # <<>> => (cursor[c].edge = NULL <=> cursor[c].closed /\ Len(Corners(c)) < 3)
            /\ cursor[c].edge # NULL =>
                 LET face == Face(mesh, cursor[c].edge)
                 IN  /\ [i \in DOMAIN face |-> mesh.pos[face[i]]] = Corners(c)
                     /\ \A i \in DOMAIN face :
                            LET v == mesh.at[face[i]]
                            IN  v \in DOMAIN mesh.verts /\ mesh.verts[v] # NULL
                     /\ cursor[c].count = Len(face)

\* Every vertex is in _vertexes once, at its index, or on the free list, and every edge is
\* on the free list or in use: what a closed or degenerate contour releases is released
\* once, and trimming takes no index that a half-edge still needs.
MeshMemory ==
    LET used == {i \in DOMAIN mesh.verts : mesh.verts[i] # NULL}
    IN  /\ \A i \in used : mesh.idx[mesh.verts[i]] = i
        /\ ToSet(mesh.freeV) \cap {mesh.verts[i] : i \in used} = {}
        /\ Len(mesh.freeV) + Cardinality(used) = Edges
        /\ IsInjective(mesh.freeV) /\ IsInjective(mesh.freeE)

\* The half-edges around a vertex have it as their origin, and those that are connected,
\* split or joined with them.  A vertex that removeDegenerateEdges has merged away is
\* excepted: its half-edges keep its index (VertexEdges).
OriginsAgree ==
    \A h \in Live :
        LET n == mesh.next[h]
        IN  mesh.verts[mesh.at[h]] # NULL /\ mesh.verts[mesh.at[n]] # NULL =>
                mesh.at[h] = mesh.at[n] /\ mesh.pos[h] = mesh.pos[n]

\* Vertex::_edge is, as its comment says, a half-edge with this origin.
VertexEdges ==
    \A i \in DOMAIN mesh.verts :
        mesh.verts[i] # NULL => mesh.at[mesh.edge[mesh.verts[i]]] = i
=================================================================================
