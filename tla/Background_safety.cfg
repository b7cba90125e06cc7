SPECIFICATION MCSpec
CONSTANTS
    Null = Null
    Unset = Unset
    Scenes <- MCScenes
    e1 = e1
    e2 = e2
    Resumes = {e1, e2}
    Cap = 2
    DefaultCap = 3
    MaxEmbedTries = 3
    MaxTaskTries = 2
    Trials <- MCTrials
    NoBreaker = NoBreaker
    NoHolder = NoHolder
    c1 = c1
    c2 = c2
    People = {1, 2, 3}
    Active = {c1, c2}
    Contents <- MCContents
    Alias <- MCAlias
    Distance <- MCDistance
    Scores = {1, 2}
    Stages = {"UPLOADED", "FRAUD_REVIEW"}
    MaxAge = 1
    PageSize = 1
    Plots <- MCPlots
    Filters <- MCFilters
CHECK_DEADLOCK FALSE
INVARIANT ScreensTellTheRun
INVARIANT FailuresTrip
INVARIANT TasksEndInBudget
INVARIANT WalkIsExplained
INVARIANT QueriesAgree
PROPERTY CooldownServed
