SPECIFICATION Spec
CONSTANTS
    Jobs = {j1, j2}
    j1 = j1
    j2 = j2
    NoJob = NoJob
    MaxConsecutive = 1
    Commands = {"down"}
    MaxCommands = 1
    Faults = {}
    MaxFaults = 0
SYMMETRY Symmetry
PROPERTIES
    SupervisorNeverRaisesDemand
