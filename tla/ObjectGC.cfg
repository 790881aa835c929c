CONSTANTS
    i1 = i1
    t1 = t1
    g1 = g1
    g2 = g2
    c1 = c1
    x1 = x1
    Instances = {i1}
    Tables = {t1}
    Globals = {g1, g2}
    Contexts = {c1}
    Foreigns = {x1}
    Comp = Comp
    Null = Null
    Referents = {i1}
    NumSlots = 1
    MaxChanges = 1
SPECIFICATION Spec
INVARIANTS
    NoDangling
    RootsSurvive
    CollectsAllGarbage
PROPERTY NewGlobalIsNull
SYMMETRY Symmetry
CHECK_DEADLOCK FALSE
