SPECIFICATION Spec
CONSTANTS
    Ids = {1, 2, 3}
    Readers = {r1}
    Limit = 2
    MaxClock = 6
INVARIANTS
    TypeOK
    SkipsBounded
    RepeatsBounded
