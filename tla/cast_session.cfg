SPECIFICATION CastSpec
CONSTANTS
    Elections = {1, 2, 3}
    Voters = {}
    CandidateRows <- MCCandidateRows
    GroupRows = {}
    PaginationMax = 2
    None = None
    Lost = Lost
    Votes = {0, 1, 2}
    MaxEntries = 2
INVARIANTS
    ChoicesArrive
    StoredIfListsAgree
    UnknownIsOffPage
CHECK_DEADLOCK FALSE
