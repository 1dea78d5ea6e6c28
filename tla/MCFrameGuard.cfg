SPECIFICATION Spec
CONSTANTS
    NamedCounts = {0}
    CallCounts = {10}
    ObjectSizes <- MCObjectSizes
    ObjectAligns = {8}
    CalleeSaved = {1}
    MaxObjects = 4
    NDEBUG = FALSE
INVARIANTS
    ArraysNextToGuard
PROPERTIES
    PlacedOnce
