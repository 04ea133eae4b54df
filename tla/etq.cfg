CONSTANTS
    Workers = {w1, w2}
    Producers = {}
    Main = Main
    Task = {a, b, c}
    Func = {f}
    Prio <- MCPrio
    Refusing = {c}
    Silent = {b}
    NULL = NULL
    a = a
    b = b
    c = c
SPECIFICATION FairSpec
INVARIANTS TypeOK CounterExact TokensSuffice RefsExact OutputAnnounced
PROPERTIES ImplementsPromise AcceptedRuns CancelReturns
CHECK_DEADLOCK FALSE
