SPECIFICATION FairAuditSpec
CHECK_DEADLOCK FALSE
VIEW AuditView
CONSTANTS
    v = v  e = e  b = b  c = c  g = g
    Voters = {v}
    Groups = {g}
    Candidates = {b, c}
    Elections = {e}
    Workers = {w1, w2}
    Requests = {r1, r2}
    Commands <- MCCommands
    KeyRows <- MCKeyRows
    GroupOf <- MCGroupOf
    AuthRows <- MCAuthRows
    StartTime <- MCTime
    EndTime <- MCTime
    CandidatesOf <- MCCandidatesOf
    TallyModulus = 2
    Garbage = Garbage
    None = None
    Lost = Lost
    MaxTime = 0
    MaxCrashes = 1
    PaginationMax = 1
INVARIANTS
    FetchCoversStart
    AcceptedIsComplete
    FalseIsExplained
    PagesRead
PROPERTY VerificationEnds
