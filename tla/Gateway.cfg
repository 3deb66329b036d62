SPECIFICATION FairSpec
CONSTANTS
    Configs = {cold, hot}
    cold = cold
    hot = hot
    Children = {c1, c2, c3}
    c1 = c1
    c2 = c2
    c3 = c3
    NoChild = NoChild
    MaxFaults = 2
INVARIANTS
    TypeOK
    ServesFile
    
    NoOrphan
PROPERTIES
    ChangeIsServed
    
