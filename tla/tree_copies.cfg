CONSTANTS
    Trees = {t1, t2}
    Space = 5
    MaxIndex = 2
    NULL = NULL
SPECIFICATION CopiesSpec
INVARIANT NodesBacked
CHECK_DEADLOCK FALSE
