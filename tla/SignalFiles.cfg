SPECIFICATION FairSpec
CONSTANTS
    t1 = t1
    t2 = t2
    Threads = {t1, t2}
    NoThread = none
    Main = t1
    Files = {a, b}
    IntSigs <- Ints
    KillSigs <- Kills
    Tools <- MCTools
INVARIANTS
    HandledLeavesNoFile
    FilesKept
    TableHasSpace
PROPERTIES
    NobodyWaits
