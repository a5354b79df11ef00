SPECIFICATION FairSpec
CONSTANTS
    Loop = loop
    Handles = {h1, h2}
    Reqs = {r1}
    NoObj = NoObj
INVARIANTS
    RefsExact
    InUseIsAlive
    LoopTakesRefsAlong
    NothingStranded
PROPERTY SweepTerminates
CHECK_DEADLOCK FALSE
