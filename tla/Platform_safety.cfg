SPECIFICATION MCFairSpec
CONSTANTS
    Readers = {"r1", "r2"}
    Writers = {"w1", "w2"}
    NoEntry = NoEntry
    Scenes <- MCScenes
    MaxOutages = 1
    Clients = {"c1", "c2"}
    Events = 3
    MaxDrops = 1
    Providers = {"google", "groq", "openai"}
    Models = {"m1", "m2"}
    Keys = {"k1", "k2", "k3"}
    Admins = {"h1", "h2"}
    Tasks = {"a1"}
    Owner <- MCOwner
    Plans <- MCPlans
    Tables <- MCTables
    MaxRows = 4
    MaxTries = 2
    NoRow = NoRow
    None = None
    PromptIds = {"pA", "pB", "pC", "pD"}
    Texts = {"x1", "x2", "x3"}
    Editors = {"e1", "e2"}
    Slots = {"jd", "resumes", "evaluation"}
    Kind <- MCKind
    Edits <- MCEdits
    NoPrompt = NoPrompt
    Nobody = Nobody
CHECK_DEADLOCK FALSE
INVARIANT StaleOutranInvalidation
INVARIANT NothingSlipsBy
INVARIANT TasksUseCheckedValues
INVARIANT ServedFits
