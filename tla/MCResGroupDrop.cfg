SPECIFICATION Spec
CONSTANTS
    Session = {p1, p2}
    Admin = {a1, a2}
    NoBackend = NoBackend
    MaxSlots = 4
    MaxGroups = 2
    InitConcurrency = 1
    Concurrency = {2}
    MaxOid = 3
    MaxStatements = 3
INVARIANT NoDropInUse
SYMMETRY Symmetry
