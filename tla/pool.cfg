CONSTANTS
    Nodes = {n1, n2, n3, n4}
    Boundary = 2
    Header = 1
    MaxIndex = 3
    Maxima = {0, 3}
    Threads = {t1, t2}
    Pools = {g, p1, p2}
    Global = g
    Cleanups = {c1}
    Alone = {t3}
    More = {c2, c3, c4}
    Sizes = {4, 7}
    PoolSize = 1
    CleanupSize = 2
    NULL = NULL
SYMMETRY Symmetry
SPECIFICATION MCSpec
INVARIANTS TypeOK NodesConserved SummariesExact TreeSound CleanupsSound
PROPERTY CleanupOrder
CHECK_DEADLOCK FALSE
