CONSTANTS
    NumThreads = 3
    APIs = {"ThreadTest", "Emscripten"}
SPECIFICATION FairSpec
INVARIANTS
    RefCount
    JoinReturnsOutcome
    ExitWaitsForThreads
PROPERTY EndedIsDeleted
CHECK_DEADLOCK FALSE
