SPECIFICATION Spec
CONSTANTS
    main = main
    leaf = leaf
    args = args
    variadic = variadic
    dynamic = dynamic
    T5 = T5
    Halt = Halt
    Functions = {main, leaf, args, variadic, dynamic}
    Mains = {main, dynamic}
    Code <- MCCode
    Registers = {T5}
    StackTop = 112
    MaxDepth <- MCMaxDepth
    MaxDynamic = 4
INVARIANTS
    LocalsIntact
    ArgsDelivered
    PointersSound
    ReturnsAsCalled
PROPERTIES
    ImplementsProcedures
