SPECIFICATION Spec
CONSTANTS
    Sizes <- MCSizes
    Defaults <- MCDefaults
    Launchers = {sup, cli}
    sup = sup
    cli = cli
    Jobs = {j1, j2}
    j1 = j1
    j2 = j2
    MaxEdits = 2
INVARIANTS
    TypeOK
    RunsAsAllocated
    EnvExported
SYMMETRY Symmetry
