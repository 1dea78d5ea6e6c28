SPECIFICATION Spec
CONSTANTS
    p1 = p1
    p2 = p2
    p3 = p3
    Procs = {p1, p2, p3}
    NoProc = NoProc
    Host <- OneMachine
    MaxRounds = 1
    MaxWait = 3
    MayCrash = FALSE
    FlakyLink = FALSE
INVARIANTS
    RemovedMeansFinished
CHECK_DEADLOCK FALSE
