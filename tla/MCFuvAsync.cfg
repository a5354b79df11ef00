SPECIFICATION FairSpec
CONSTANTS
    Threads = {loop_thread, t1, t2}
    LoopThread = loop_thread
    Nobody = Nobody
    MaxCalls = 5
INVARIANT DeliveredOnceInOrder
PROPERTY HandshakeEnds
CHECK_DEADLOCK FALSE
