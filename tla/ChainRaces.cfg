SPECIFICATION Spec
CONSTANTS
    b1 = b1  b2 = b2  b3 = b3
    s1 = s1  s2 = s2  s3 = s3  t = t
    Bodies = {b1, b2, b3}
    Slugs = {s1, s2, s3, t}
    Zeros = Zeros
    NULL = NULL
    Candidate <- MCCandidate
    SlugRetryLimit = 2
    MixUps = FALSE
    Procs = {p1, p2}
    ClientOps = {"Post", "Delete", "SignedDelete", "Restore", "Purge", "Worker"}
    MaxInserts = 3
    MaxRows = 3
SYMMETRY Symmetry
INVARIANTS
    TypeOK
    ForkBounded
    ChainGrounded
