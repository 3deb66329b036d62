SPECIFICATION FairSpec
CONSTANTS
    Jobs = {j1, j2}
    j1 = j1
    j2 = j2
    NoJob = NoJob
    MaxConsecutive = 1
    Commands = {"wake"}
    MaxCommands = 0
    Faults = {}
    MaxFaults = 0
PROPERTIES
    DemandIsServed
    DrainEnds
    DemandOffQuiesces
