SPECIFICATION LiveSpec
CONSTANTS
    Gxid = {g1}
    Seg = {s1, s2}
    NoGxid = NoGxid
    HasStandby = FALSE
PROPERTIES
    PreparedIsResolved
    RecoveryEnds
