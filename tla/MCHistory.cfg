SPECIFICATION HistorySpec
CONSTANTS
    Registry <- MCRegistry
    AnswersOf <- MCAnswersOf
    Tools = {"page", "list"}
    Ids = {"x"}
    NoId = NoId
    Sizes = {4}
    Placeholder = 1
    Kinds = {"mail", "card"}
    MinChars = 2
    Budget = 8
    KeepResults = 1
    KeepTasks = 1
    MaxGoals = 3
    MaxCalls = 2
    MaxRejections = 1
    MaxResumes = 1
INVARIANTS
    SentIsPaired
    NewestStay
    MaskedStays
CHECK_DEADLOCK FALSE
