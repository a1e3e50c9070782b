SPECIFICATION FairSpec
CONSTANTS
    look = look
    click = click
    edit = edit
    observe = observe
    mutate = mutate
    shop = shop
    Unresolved = Unresolved
    None = None
    Calls = {look, click, edit}
    Tools = {observe, mutate}
    ToolOf <- MCToolOf
    ReadOnlyTools = {observe}
    Domains = {shop}
    Targets = {}
    Mode = "default"
    Rules <- MCRules
    Normal <- MCNormal
    Rewrites <- MCRewrites
    ModelSignal = TRUE
    Classifies = TRUE
    Successes = {"page"}
    Failures = {"failure"}
    TurnCap = 4
    MaxReplans = 1
    MaxFailures = 2
    MaxIneffective = 2
    MaxStopBlocks = 1
    MaxTasks = 2
INVARIANTS
    RunsOnlyAuthorized
    BudgetsHold
    CallsAreAnswered
PROPERTIES
    TaskEnds
