SPECIFICATION MCFairSpec
CONSTANTS
    Areas = {"campaign", "interviews"}
    Admins = {"h1", "h2"}
    Candidates = {"c1", "c2"}
    Tasks = {"d1", "a1", "p1"}
    Kind <- MCKind
    Weights = {"W1", "W2", "W3"}
    Defaults = "W1"
    MaxOpenings = 2
    MaxReplays = 2
    Scenarios <- MCScenarios
    Clerks = {"k1", "k2"}
    Beat = "beat"
    Times = {1, 2}
    MaxTime = 2
    MaxRounds = 3
    MaxTries = 3
    Agendas <- MCAgendas
CHECK_DEADLOCK FALSE
INVARIANT WeightHistoryIsChain
INVARIANT NextRoundFilledOnce
PROPERTY QueuedTaskDecided
PROPERTY RecordedNeverResent
