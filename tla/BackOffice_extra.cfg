SPECIFICATION MCFairSpec
CONSTANTS
    Admins = {"h1", "h2"}
    Texts = {"t1", "t2"}
    Bases = {"b1"}
    Jds = {"j1"}
    Resumes = {"r1"}
    RawOf <- MCRawOf
    Plans <- MCPlans
    Editors = {e1, e2}
    e1 = e1
    e2 = e2
    Skills = {"k1", "k2", "k3"}
    NoSkill = "null"
    FirstSkills <- MCFirstSkills
    FirstParent <- MCFirstParent
    MaxImports = 1
    MaxEdits = 3
    Campaigns = {"k1", "k2", "k3"}
    First = {"k1"}
    HRAdmins = {"a1", "a2"}
    Managers = {"m1", "m2"}
    Presets = {"p", "q", "a1", "a2"}
    FirstPresets <- MCFirstPresets
    FirstWeights <- MCFirstWeights
    Names = {"A", "B", "C"}
    MinLayer = 5
    PageSize = 1
    Scenes <- MCScenes
    Null = Null
    Cands = {1, 2, 3}
    CampaignIds = {"k1", "k2"}
    CampaignOf <- MCCampaignOfCandidate
    ResumeOf <- MCResumeOf
    Openings <- MCOpenings
    Sla <- MCSla
    StaleAfter = 1
    Limits <- MCLimits
    MaxReplays = 2
    MaxClock = 3
    Mixes <- MCMixes
    NoValue = NoValue
    Areas = {"curation", "hierarchy", "figures", "lists"}
CHECK_DEADLOCK FALSE
PROPERTY ChangedSkillsRescored
PROPERTY AlertsTellSomethingNew
