SPECIFICATION FairSpec
CONSTANTS
    p1 = p1
    p2 = p2
    p3 = p3
    Procs = {p1, p2, p3}
    NoProc = NoProc
    Host <- TwoMachines
    MaxRounds = 1
    MaxWait = 3
    MayCrash = TRUE
    FlakyLink = TRUE
INVARIANTS
    LockFileSound
    NothingLeft
    OneOwner
PROPERTIES
    StaleLockGoes
    EveryCallEnds
CHECK_DEADLOCK FALSE
