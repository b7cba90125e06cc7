SPECIFICATION MCSpec
CONSTANTS
    s1 = s1
    s2 = s2
    c1 = c1
    c2 = c2
    Candidates = {c1, c2}
    Sessions = {s1, s2}
    Openings = 2
    Starts <- MCStarts
    MaxRequests = 2
    Mixes <- MCMixes
    Areas = {"stages", "reports"}
    Null = Null
    Cands = {1, 2, 3}
    Created <- MCCreated
    Writers = {"w1", "w2"}
    RequestMixes <- MCRequestMixes
    Situations <- MCSituations
    Queries <- MCQueries
    GapMixes <- MCGapMixes
    MaxWrites = 3
    PageSize = 2
SYMMETRY MCSymmetry
CHECK_DEADLOCK FALSE
INVARIANT InterviewHasRound
INVARIANT FilledCloses
INVARIANT ReportsAgree
PROPERTY VerdictFollowsTable
