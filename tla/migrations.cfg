SPECIFICATION FairSpec
CONSTANTS
    Processes = {p1, p2}
    Files = {1, 2, 3}
    None = None
    MaxCrashes = 1
INVARIANTS
    AppliedOnce
    RecordedAreApplied
    ReadyIsMigrated
PROPERTIES
    UpdatesSpec
    EveryoneGetsReady
