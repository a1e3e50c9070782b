SPECIFICATION FrontFairSpec
CONSTANTS
    Fronts = {"tui", "plain", "print", "classic"}
    first = A
    Sessions = {A, B}
    t1 = t1
    t2 = t2
    Tasks = {t1, t2}
    None = None
    Limit = 3
    Behind = 2
    MaxSteps = 1
    MaxSwitches = 2
    MaxFaults = 1
INVARIANT
    ScreenIsTrue
PROPERTY FrontEndReturns
CHECK_DEADLOCK FALSE
