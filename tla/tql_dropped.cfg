CONSTANTS
    Workers = {w1}
    Producers = {}
    Main = Main
    Task = {a}
    Func = {}
    Prio <- MCPrio
    Refusing = {}
    Silent = {}
    Cancelable = FALSE
    Waitable = FALSE
    MaxSpawns = 1
    NULL = NULL
    a = a
    b = b
    c = c
SPECIFICATION LocalSpec
INVARIANT LocalTaskKept
CHECK_DEADLOCK FALSE
