SPECIFICATION MCFairSpec
CONSTANTS
    Requests = {q1, q2}
    Workers = {w1}
    Scanners = {s1}
    q1 = q1
    q2 = q2
    w1 = w1
    s1 = s1
    NoTask = NoTask
    DefaultMax = 1
    AIMax = 2
    MaxFaults <- MCMaxFaults
    Mixes <- MCLiveMixes
    Files = {"f1", "f2"}
    Runners = {"u1", "u2"}
    UploadMixes = {{"several", "retry", "pause"}}
    Embeds = {"r1", "r2"}
    NoBreaker = NoBreaker
    NoHolder = NoHolder
PROPERTY EventuallyDecided
PROPERTY JobSettles
PROPERTY EveryEmbedDecided
CHECK_DEADLOCK FALSE
