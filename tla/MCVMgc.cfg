CONSTANTS
    VMs = {v1, v2}
    Objs = {o1, o2, o3}
    Names = {n1}
    MaxRefs = 1
    WeakModes = {"weak_K"}
    NoObj = NoObj
SPECIFICATION Spec
SYMMETRY Symmetry
INVARIANTS
    NoDangling
    MarksReachable
    SymbolsUnique
PROPERTIES
    WeakEntriesKept
