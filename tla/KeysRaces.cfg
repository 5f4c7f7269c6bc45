SPECIFICATION KeysSpec
CONSTANTS
    KeyProcs = {p1, p2}
    KeyOps <- AllKeyOps
    CanFail = TRUE
    MaxKeys = 4
SYMMETRY Symmetry
INVARIANTS
    ActiveBounded
PROPERTIES
    RotationRevokesOld
