SPECIFICATION FairSpec
CONSTANTS
    Node = {n1, n2}
    Preferred = n1
    Commit = {c1}
    Retries = 1
    MaxFaults = 2
INVARIANTS TypeOK CatalogConsistent CommitInSyncSurvives InSyncWaits
PROPERTIES CommitReleased PromotionCompletes
