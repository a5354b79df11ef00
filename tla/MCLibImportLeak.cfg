CONSTANTS
    a = a
    Threads = {t1, t2, t3}
    d = d
    Libs = {d}
    Dlls = {d}
    Deps <- MCDeps1
    Rank <- MCRank1
    NoThread = NoThread
    MaxOverflows = 1
SPECIFICATION FairSpec
PROPERTY FailureReported
