CONSTANTS
    Workers = {w1, w2}
    Producers = {}
    Main = Main
    Task = {a, b, c}
    Func = {f}
    Prio <- MCPrio
    Refusing = {c}
    Silent = {b}
    Cancelable = TRUE
    Waitable = TRUE
    MaxSpawns = 1
    NULL = NULL
    a = a
    b = b
    c = c
SPECIFICATION Spec
INVARIANTS TypeOK CounterExact WorkersHaveContext ReportsReachMain
PROPERTY ImplementsPromise
CHECK_DEADLOCK FALSE
