SPECIFICATION Spec
CONSTANTS
    Node = {n1, n2}
    Preferred = n1
    Commit = {c1}
    Retries = 1
    MaxFaults = 2
INVARIANT NoCommitLost
