SPECIFICATION Spec
CONSTANTS
    Gxid = {g1}
    Seg = {s1, s2}
    NoGxid = NoGxid
    HasStandby = TRUE
SYMMETRY Symmetry
INVARIANTS
    TypeOK
    Agreement
    ForgetIsSafe
    OutcomeIsTrue
    StartedMeansRecovered
PROPERTIES
    ImplementsAtomicCommit
