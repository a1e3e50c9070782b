SPECIFICATION ViewsSpec
CONSTANTS
    t1 = t1
    t2 = t2
    Tasks <- MCTasks
    Text = Text
    None = None
    MaxCalls = 2
    MaxTurns = 2
    MaxReplans = 1
    MaxBefore = 7
    MaxHooks = 1
    Options <- MCOptions
    MaxTasks = 1
    MaxTickets = 2
    MaxCommands = 1
    MaxInbox = 2
INVARIANTS
    
    ReadersAgree
    KeysAreMeant
CHECK_DEADLOCK FALSE
