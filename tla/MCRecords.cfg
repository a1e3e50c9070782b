SPECIFICATION RecordsSpec
CONSTANTS
    Procs <- MCProcs
    Sessions = {s1}
    Tasks <- MCTasks
    None = None
    MaxEvents = 3
    MaxFaults = 2
    Agents <- MCProcs
    Paths <- MCPaths
    Covers <- MCCovers
    Promote = 2
    StaleAfter = 2
    MaxEntries = 1
    MaxTasks = 4
    MaxEdits = 3
    MaxRefusals = 1
    Golden <- MCGolden
    TaskCount <- MCTaskCount
    Expected <- MCExpected
    Typos = {}
    Hashes = {"v1", "v2"}
    Mode = "dont_ask"
    Options <- MCOptions
    Errors = {"ModelProviderError", "TimeoutError", "RuntimeError"}
    MaxBatches = 2
    MaxRows = 3
    MaxIncidents = 3
    p1 = p1
    p2 = p2
    t1 = t1
    t2 = t2
    t3 = t3
    s1 = s1
    f1 = f1
    f2 = f2
INVARIANTS
    DialogueIsRecorded
    TrustIsEarned
    
    
    HistoryKeepsNewest
PROPERTIES
    OutcomesStay
CHECK_DEADLOCK FALSE
