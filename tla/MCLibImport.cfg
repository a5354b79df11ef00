CONSTANTS
    Threads = {t1, t2}
    a = a
    d = d
    Libs = {a, d}
    Dlls = {d}
    Deps <- MCDeps
    Rank <- MCRank
    NoThread = NoThread
    MaxOverflows = 2
SPECIFICATION FairSpec
INVARIANTS
    BodyRunsOnce
    NeverUnreachable
    GotIsComplete
PROPERTY ImportEnds
