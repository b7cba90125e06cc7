SPECIFICATION Spec
CONSTANTS
    Requests = {q1, q2}
    Workers = {w1, w2}
    Scanners = {s1, s2}
    q1 = q1
    q2 = q2
    w1 = w1
    w2 = w2
    s1 = s1
    s2 = s2
    NoTask = NoTask
    DefaultMax = 1
    AIMax = 2
    MaxFaults <- MCMaxFaults
    Mixes <- MCSafetyMixes
SYMMETRY MCSymmetry
INVARIANT OneFirstDispatch
INVARIANT NoSilentFailure
INVARIANT CrashesNeverStrand
CHECK_DEADLOCK FALSE
