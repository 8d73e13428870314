SPECIFICATION Spec
CONSTANTS
    b1 = b1
    Backend <- MCBackend
    DtxRecovery = recovery
    Prefetch = 2
    FirstGxid = 1
    LastGxid = 8
    MaxShutdowns = 1
INVARIANTS
    TypeOK
    RestartAboveAssigned
PROPERTIES
    NoGxidReuse
