SPECIFICATION FairSpec
CHECK_DEADLOCK FALSE
CONSTANTS
    v1 = v1  v2 = v2  v3 = v3
    e1 = e1  e2 = e2
    a = a  b = b  c = c
    g1 = g1  g2 = g2
    Voters = {v1, v2, v3}
    Groups = {g1, g2}
    Candidates = {a, b, c}
    Elections = {e2}
    Workers = {w1, w2}
    Requests = {r1, r2}
    Commands <- CommandForTwo
    KeyRows <- MCKeyRows
    GroupOf <- MCGroupOf
    AuthRows <- MCAuthRows
    StartTime <- MCStartTime
    EndTime <- MCEndTime
    CandidatesOf <- MCCandidatesOf
    TallyModulus = 2
    Garbage = Garbage
    None = None
    MaxTime = 1
    MaxCrashes = 1
INVARIANTS
    RepliesMatchBallots
    OneBallotPerRequest
    OneTallyPerElection
    TalliesCountStoredBallots
PROPERTIES
    BoxSpec
    EveryCommandResolved
    EveryElectionTallied
