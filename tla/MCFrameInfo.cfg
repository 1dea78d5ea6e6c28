SPECIFICATION Spec
CONSTANTS
    NamedCounts <- MCNamedCounts
    CallCounts <- MCCallCounts
    ObjectSizes <- MCObjectSizes
    ObjectAligns <- MCObjectAligns
    CalleeSaved <- MCCalleeSaved
    MaxObjects = 2
    NDEBUG = TRUE
INVARIANTS
    FrameLaidOut
    OutgoingArgsReserved
    CallersWordsFound
    FrameIndexEncodable
    WordFramesPacked
