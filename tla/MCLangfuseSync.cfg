SPECIFICATION FairSpec
CONSTANTS
    runner = runner
    dev = dev
    None = None
    Rows <- MCRows
    Spans <- MCSpans
    Settings <- MCSettings
    SizeOf <- MCSizeOf
    Failed <- MCFailed
    Developers = {dev}
    Projects = {"home", "new"}
    Room = 1
    MaxAttempts = 2
    MaxFaults = 1
    MaxChanges = 1
    Lapses = {}
INVARIANTS
    
    CompleteIsWhole
PROPERTIES
    SyncCompletes
