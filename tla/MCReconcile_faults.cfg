SPECIFICATION Spec
CONSTANTS
    Jobs = {j1, j2}
    j1 = j1
    j2 = j2
    NoJob = NoJob
    MaxConsecutive = 2
    Commands = {"wake"}
    MaxCommands = 0
    Faults = {"crash", "squeue", "sbatch", "preflight", "node", "script", "overlap", "wall", "scancel"}
    MaxFaults = 1
SYMMETRY Symmetry
INVARIANTS
    TypeOK
    NoDuplicateLaunch
    SparesBringUps
PROPERTIES
    SupervisorNeverRaisesDemand
    SweepSparesLiveJobs
