SPECIFICATION Spec
CONSTANTS
    p1 = p1
    p2 = p2
    p3 = p3
    k1 = k1
    k2 = k2
    Procs <- MCProcs
    CodeKey <- MCCodeKey
    Modules = {m1}
    None = None
    Outdated = Outdated
    CoarseClock = FALSE
    MaxTime = 7
    MaxCalls = 3
    MaxFaults = 1
INVARIANTS TablesAgree ServesOwnCode
PROPERTIES CallReturns
CHECK_DEADLOCK FALSE
VIEW Surviving
