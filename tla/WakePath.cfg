SPECIFICATION FairSpec
CONSTANTS
    Tick = 2
    Stale = 3
    Idle = 5
    Linger = 1
    MaxFaults = 3
INVARIANTS
    TypeOK
    
    ReapsIdleOnly
    
    

    
