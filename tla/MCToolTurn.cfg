SPECIFICATION TurnSpec
CONSTANTS
    look = look
    click = click
    d1 = d1
    buy = buy
    one = one
    two = two
    Unresolved = Unresolved
    None = None
    Calls <- MCCalls
    Tools <- MCTools
    ToolOf <- MCToolOf
    ReadOnlyTools = {look}
    Domains = {d1}
    Targets = {buy}
    RuleSets <- MCRuleSets
    Values = {one, two}
    Schemas <- MCSchemas
    Replies <- MCReplies
    Updates <- MCUpdates
    OffersNotes = TRUE
    ModelSignal = TRUE
    Classifies = TRUE
INVARIANTS
    DenyRulesAreFinal
    AlwaysAskIsAlwaysAsked
    AskedIsConsented
    ArgumentsAreItsOwn
    RewordingIsNoEscape
