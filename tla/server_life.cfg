CHECK_DEADLOCK FALSE
SPECIFICATION FairSpec
INVARIANTS
    StopFindsThreads
    GoneMeansJoined
    AbortsOnlyIfFailed
PROPERTIES
    StopGetsToThePool
    FailureEndsClock
