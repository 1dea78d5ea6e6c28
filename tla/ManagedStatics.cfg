SPECIFICATION FairSpec
CONSTANTS
    Threads = {main, t1, t2}
    Main = main
    None = None
    a = a
    b = b
    c = c
    Statics = {a, b, c}
    Uses <- MCUses
    DeleterUses <- MCDeleterUses
    MaxStarts = 2
INVARIANTS
    NeverHalfBuilt
    BuiltOnce
    ShutdownInOrder
PROPERTIES
    OperatorsReturn
    ShutdownEnds
