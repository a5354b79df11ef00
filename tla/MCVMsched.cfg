SPECIFICATION FairSpec
CONSTANTS
    VMs = {main, a}
    Main = main
    MaxAtExit = 2
INVARIANTS
    StoppedMeansStopped
    JoinsOnlyFinished
    ReleasedIsUnused
    RunningCountExact
    ReturnsWhenOver
PROPERTIES
    CollectionEnds
    WorkIsDone
    StartedOrOver
