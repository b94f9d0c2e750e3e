SPECIFICATION Spec
CONSTANTS
    Elections = {1, 2, 3}
    Voters = {1}
    CandidateRows <- MCCandidateRows
    GroupRows <- MCGroupRows
    PaginationMax = 2
    None = None
INVARIANTS
    WalkComplete
    TalliedAreListed
    CountedAreFinalized
