SPECIFICATION Spec
CONSTANTS
    call = call
    read = read
    supervisor1 = supervisor1
    supervisor2 = supervisor2
    Callers = {call, read}
    Idempotent = {read}
    MaxRequests = 1
    Supervisors = {supervisor1, supervisor2}
    Reconnect = FALSE
    MaxAttempts = 1
    StartAttempts = 1
    Closers = {"reconnect", "remove", "shutdown"}
    MaxClosings = 1
    MaxFaults = 2
    Incarnations = 7
INVARIANTS
    OneClientPerServer
CHECK_DEADLOCK FALSE
