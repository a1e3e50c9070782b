SPECIFICATION FairSpec
CONSTANTS
    Total = 8
    StallBudgets = {3, 8}
    PollInterval = 2
    ApprovalWait = 2
    Unwinds <- MCUnwinds
INVARIANTS
    SilenceIsBounded
    CancellationIsReported
PROPERTIES
    
    GoalEnds
