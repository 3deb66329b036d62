SPECIFICATION Spec
CONSTANTS
    ModelList <- MCModelList
    Served <- MCServed
    Named32b = {"b-32b"}
    Jobs = {1, 2, 3}
    MaxWall = 2
INVARIANTS
    TypeOK
    AliasFollowsRole
PROPERTIES
    CutoverIsForward
    DrainSparesRoute
