SPECIFICATION Spec
CONSTANTS
    Requests = {1, 2}
    Keys <- MCKeys
    NoKey = NoKey
    KeyOf <- MCOneKey
    Content <- MCTexts
    ByChat = {}
    MessageDelay = 0
    Ttl = 5
    MaxTime = 3
    MaxFaults = 1
INVARIANT ExactlyOnce
CHECK_DEADLOCK FALSE
