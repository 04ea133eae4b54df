CONSTANTS
    NULL = NULL
    t1 = t1
    t2 = t2
    one = one
    two = two
    c1 = c1
    c2 = c2
    o1 = o1
    o2 = o2
SPECIFICATION Spec
INVARIANTS TypeOK TreeSound TableSound TessSound BlocksSound
    ValuesKept EncodingsInvert StorageSound RefsSound TransfersSound JsonSound BuffersSound
    DatesSound PathsSound
PROPERTY ReleasedAsAcquired
CHECK_DEADLOCK FALSE
