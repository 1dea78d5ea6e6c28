SPECIFICATION Spec
CONSTANTS
    NamedCounts <- MCNamedCounts
    CallCounts <- MCCallCounts
    ObjectSizes = {4}
    ObjectAligns = {4}
    CalleeSaved = {0}
    MaxObjects = 1
    NDEBUG = FALSE
INVARIANT
    VarArgsEverywhere
