SPECIFICATION FairSpec
CONSTANTS
    first = first
    second = second
    esc = esc
    clear = clear
    resume = resume
    mcp = mcp
    other = other
    small = small
    large = large
    shutdown = shutdown
    close = close
    stop = stop
    None = None
    Submits = {first, second}
    Cancels = {esc}
    Resets = {clear}
    Resumes = {resume}
    Switches = {other}
    Reconnects = {mcp}
    Models = {small, large}
    Default = small
    Exits = TRUE
    MaxCommands = 3
    MaxFaults = 1
INVARIANTS
    SwitchesSpareTasks
    
    
PROPERTIES
    CommandsEnd
CHECK_DEADLOCK FALSE
