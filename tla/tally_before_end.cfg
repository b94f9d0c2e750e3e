SPECIFICATION Spec
CHECK_DEADLOCK FALSE
CONSTANTS
    v1 = v1  v2 = v2  v3 = v3
    e1 = e1  e2 = e2
    a = a  b = b  c = c
    g1 = g1  g2 = g2
    Voters = {v1, v2, v3}
    Groups = {g1, g2}
    Candidates = {a, b, c}
    Elections = {e1}
    Workers = {w1}
    Requests = {r1}
    Commands <- OneCommand
    KeyRows <- MCKeyRows
    GroupOf <- MCGroupOf
    AuthRows <- MCAuthRows
    StartTime <- MCStartTime
    EndTime <- MCEndTime
    CandidatesOf <- MCCandidatesOf
    TallyModulus = 2
    Garbage = Garbage
    None = None
    MaxTime = 2
    MaxCrashes = 0
INVARIANT
    OnlyCompletedElectionsTallied
