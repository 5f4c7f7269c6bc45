SPECIFICATION MCSpec
CONSTANTS
    b1 = b1  b2 = b2
    s1 = s1  s2 = s2  s3 = s3
    Bodies = {b1, b2}
    Slugs = {s1, s2, s3}
    Zeros = Zeros
    NULL = NULL
    Candidate <- MCCandidate
    SlugRetryLimit = 3
    MixUps = FALSE
    Procs = {p1}
    ClientOps = {"Post", "SignedDelete", "Restore", "Worker"}
    MaxInserts = 5
    MaxRows = 3
    KeyProcs = {k1}
    KeyOps = {"Revoke"}
    CanFail = FALSE
    MaxKeys = 1
    Foreign = Foreign
    Missing = Missing
    Window = 0
    Skew = 1
    Damage = TRUE
    MaxTime = 2
    MaxSigned = 2
SYMMETRY Symmetry
INVARIANTS
    ActiveKeySigned
    EntryAsSigned
    RetryStoredOnce
PROPERTIES
    FreshEffect
    ImplementsHashTree
