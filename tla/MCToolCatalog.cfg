SPECIFICATION FairSpec
CONSTANTS
    browser = browser
    files = files
    None = None
    Servers = {browser, files}
    Ephemeral = {files}
    Browser = browser
    Tools <- MCTools
    Lists <- MCLists
    Before <- MCBefore
    Local <- MCLocal
    Base <- MCBase
    Hashed <- MCHashed
    Short <- MCShort
    MaxChanges = 2
    MaxFaults = 1
INVARIANTS
    ListsAreOfTheirSession
    NamesLeadHome
PROPERTIES
    ListsSettle
CHECK_DEADLOCK FALSE
