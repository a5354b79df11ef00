SPECIFICATION FairSpec
CONSTANTS
    Threads = {t1, t2, t3}
    Msgs = {m1, m2, m3}
    QSizes = {0, 1, 2}
    NIL = NIL
    NULL = NULL
INVARIANTS
    NoMissedHandoff
    WaitersAreQueued
    InFlightLive
    MsgListExact
PROPERTIES
    ImplementsQueue
    WaitersServed
CHECK_DEADLOCK FALSE
