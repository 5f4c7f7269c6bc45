SPECIFICATION Spec
CONSTANTS
    b1 = b1  b2 = b2  b3 = b3
    s1 = s1  s2 = s2  s3 = s3  t = t
    Bodies = {b1, b2}
    Slugs = {s1, s2, t}
    Zeros = Zeros
    NULL = NULL
    Candidate <- MCCandidate
    SlugRetryLimit = 2
    MixUps = TRUE
    Procs = {p1, p2}
    ClientOps = {"Post"}
    MaxInserts = 3
    MaxRows = 3
PROPERTIES
    ImplementsHashChain
