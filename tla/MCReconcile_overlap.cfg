SPECIFICATION Spec
CONSTANTS
    Jobs = {j1, j2, j3}
    j1 = j1
    j2 = j2
    j3 = j3
    NoJob = NoJob
    MaxConsecutive = 1
    Commands = {}
    MaxCommands = 0
    Faults = {}
    MaxFaults = 0
SYMMETRY Symmetry
INVARIANTS
    HandoffOverlap
