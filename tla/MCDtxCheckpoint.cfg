SPECIFICATION Spec
CONSTANTS
    Backend = {b1, b2}
    Gxid = {g1, g2}
    NoGxid = NoGxid
    MaxTmGxacts = 4
    MaxRestarts = 2
    MaxWal = 5
SYMMETRY Symmetry
INVARIANTS
    TypeOK
    RedoFindsCommitted
    OwnedUntilForgotten
CHECK_DEADLOCK FALSE
