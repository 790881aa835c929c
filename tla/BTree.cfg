SPECIFICATION Spec
CONSTANTS
    Keys = {1, 2, 3, 4, 5, 6}
    Cursors = {1}
    Loads <- MCLoads
    LeafMax = 4
    BranchMax = 5
    MaxDepth = 3
    MaxPg = 14
VIEW TreeView
INVARIANTS TreeIsSound PagesCounted FindsWhatIsStored CursorsKeepTheirPlace
CHECK_DEADLOCK FALSE
