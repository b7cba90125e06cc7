SPECIFICATION MCFairSpec
CONSTANTS
    Workers = {w1, w2}
    Clerks = {hr}
    MaxTasks = 6
    MaxAttempts = 2
    MaxJdWaits = 1
    Scenarios <- MCScenarios
    Skills <- MCOntology
    Parent <- MCSkillParent
    Inactive <- MCInactive
    Similar <- MCSimilar
    Jds <- MCJds
    Grades = {6, 10}
    Years = {1, 3, 8}
    Ranks = {0, 2, 4}
    Words = {50, 100}
    MaxSkills = 2
    MaxDegrees = 2
    None = None
    java = java
    spring = spring
    boot = boot
    kotlin = kotlin
    sap = sap
    erp = erp
    hana = hana
INVARIANT LiveRowIsBacked
PROPERTY VerdictNeedsPass
PROPERTY EverySemanticRuns
PROPERTY GainNeverFails
CHECK_DEADLOCK FALSE
