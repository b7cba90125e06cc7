SPECIFICATION MCFairSpec
CONSTANTS
    Workers = {w1, w2}
    Clerks = {c1, c2}
    Contents = {x1, x2}
    MaxTasks = 2
    MaxJds = 4
    Attempts <- MCAttempts
    Scenarios <- MCScenarios
    Requests = {"r1", "r2", "r3"}
    Old = "old"
    Persons = {"p1", "p2"}
    Files = {"f1", "f2"}
    Campaigns = {"c1", "c2"}
    Encounters <- MCEncounters
    Areas = {"jd", "intake"}
CHECK_DEADLOCK FALSE
INVARIANT VersionsExact
PROPERTY OneLiveVersion
PROPERTY EverySubmissionDecided
PROPERTY UploadedIsScored
PROPERTY PoolFollowsStanding
