SPECIFICATION FairSpec
CONSTANTS
    Jobs = {j1, j2, j3}
    j1 = j1
    j2 = j2
    j3 = j3
    MaxConsecutive = 3
    MaxCommands = 2
INVARIANTS
    TypeOK
    CountIsReal
    NoCountLost
PROPERTIES
    LeftAlone
CHECK_DEADLOCK FALSE
