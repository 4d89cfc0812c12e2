SPECIFICATION FairSpec
CONSTANTS
    Scanners = {s1, s2}
    MaxAttempts = 2
    MaxMessages = 2
    MaxFaults = 2
INVARIANTS
    TriesBounded
    OneHolder
    CopiesExplained
PROPERTIES
    SettledStays
    Followed
CHECK_DEADLOCK FALSE
