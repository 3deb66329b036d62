SPECIFICATION FairSpec
CONSTANTS
    Commands = {"status", "down"}
INVARIANTS
    TypeOK
    ServedHasAnswered
PROPERTIES
    MovesForward
    GoneIsForgotten
