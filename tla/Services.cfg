SPECIFICATION ServicesSpec
CONSTANTS
    r1 = r1
    r2 = r2
    r3 = r3
    c1 = c1
    c2 = c2
    Requests <- MCRequests
    Children <- MCChildren
    Slots = 2
    Idle = 1
    NONE = NONE
    MaxActive = 2
    PoolSize = 1
    Texts = 2
    Check = 3
    Stale = 12
    Grace = 12
    Interval = 4
    Boot = 6
    MaxFailures = 1
INVARIANTS
    ChildSafety
    ShimSound
    InitSound
    OnlyHungRestarted
PROPERTIES
    LaunchedAlone
    ServicesProgress
