SPECIFICATION Spec
CONSTANTS
    Txn = {t1, t2, t3}
    Segment = {s1}
    MaxSnapshots = 2
SYMMETRY Symmetry
INVARIANTS
    TypeOK
    ConsistentSnapshot
    HorizonBelowSnapshots
    GlobalXminInSnapshot
CHECK_DEADLOCK FALSE
