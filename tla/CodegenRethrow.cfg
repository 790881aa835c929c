CONSTANTS
    FuncResults <- SmallResults
    Locals <- SmallLocals
    BlockTypes <- SmallBlockTypes
    OpTypes <- SmallOpTypes
    CalleeTypes <- SmallCalleeTypes
    ExnParams <- SmallExnParams
    MaxDepth = 3
    MaxStack = 3
    MaxDead = 1

SPECIFICATION Spec

INVARIANT RethrowFindsItsCatch

CHECK_DEADLOCK FALSE
