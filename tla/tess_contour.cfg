CONSTANTS
    Cursors = {c1}
    Points = {0, 2, 4}
    Crossings = {}
    Tolerance = 1
    Edges = 5
    MaxPushes = 4
    Reserved = 6
    NULL = NULL
SPECIFICATION Spec
INVARIANT VertexEdges
CHECK_DEADLOCK FALSE
